---- MODULE Spec2Model ----
(***************************************************************************)
(* A model of happystore's transactional engine (_SqlLiteHappyStore):      *)
(* the re-entrant lock, the in-transaction flag and nesting level, the     *)
(* shared sqlite connection with its savepoint stack, and the threads      *)
(* that enter transaction scopes and call the point operations, the bulk   *)
(* operations and query.                                                   *)
(***************************************************************************)
EXTENDS Integers, Sequences, FiniteSets, TLC

\* ------------------------------------------------------------- bounds
NumThreads == 2
\* How many savepoints the connection may hold in Spec and in SpecNest.
MaxNest == 1
MaxSavepoints == 2
\* How many point operations the thread of SpecPoint runs.
PointLen == 2
\* How long the lists given to the bulk operations may be.
MaxBulk == 2
\* How many keys the store of SpecQuery holds, and the greatest limit asked.
MaxStored == 3
MaxLimit == 2
MaxPage == 2

Threads == 1..NumThreads
Keys == {"a", "b"}
Values == {1, 2}
NoThread == 0

\* The keys and values the threads of Spec draw their arguments from.
TxnKeys == {"a"}
TxnValues == {1, 2}

VARIABLES
    txn_rlock,           \* self._txn_rlock: [owner, count]
    is_already_in_txn,   \* self._is_already_in_txn
    txn_nesting_level,   \* self._txn_nesting_level
    committed,           \* the table as last committed by the connection
    content,             \* the table as the shared connection sees it now
    savepoints,          \* the connection's stack of savepoints named txn
    pc,                  \* where each thread is: idle, in, auto, raising
    frames,              \* each thread's open transaction scopes, outermost first
    start,               \* the table when the threads started
    todo,                \* the statements each thread has still to run (fixed programs)
    last,                \* the latest call: who made it and what it gave its caller
    dirty,               \* keys each thread's open root transaction wrote
    seen,                \* what each thread's root transaction last read per key
    stale,               \* keys of seen read before a nested rollback
    ideal,               \* the table under exact checkpoint semantics
    sqlite_connection_is_already_closed,
                         \* self._sqlite_connection_is_already_closed
    scans,               \* each thread's scan generator, when it iterates one
    exclusive_lock,      \* the process whose connection holds sqlite's
                         \* EXCLUSIVE lock on the database file
    handles              \* the store handle of each process that opened the file

vars == <<txn_rlock, is_already_in_txn, txn_nesting_level, committed, content,
          savepoints, pc, frames, start, todo, last, dirty, seen, stale, ideal,
          sqlite_connection_is_already_closed, scans,
                   exclusive_lock, handles>>

\* ------------------------------------------------------- the serializer
\* A value pickle cannot dump (a lambda, an open file).
Unpicklable == {-1}

\* PickleSerializer.serialize raises SerializationError for such a value.
SerializeRaises(value) == value \in Unpicklable

\* PickleSerializer.serialize: the bytes of the pickled value.
Serialize(value) == <<value>>

\* PickleSerializer.deserialize: the value unpickled from the bytes.
Deserialize(bytess) == bytess[1]

\* ------------------------------------------------ the table (pure parts)
EmptyTable == [k \in {} |-> 0]

\* The tables a store may hold when the threads start: its values are bytes
\* an earlier set serialized.
Tables == UNION {[ks -> {Serialize(v) : v \in Values}] : ks \in SUBSET Keys}

\* SELECT value FROM database WHERE key = ?  (LookupError when no row)
GetImpl(db, key) ==
    IF key \in DOMAIN db THEN [found |-> TRUE, val |-> db[key]]
                         ELSE [found |-> FALSE]

\* get: the row's bytes deserialized for the caller.
GetResult(db, key) ==
    LET row == GetImpl(db, key)
    IN  IF row.found THEN [found |-> TRUE, val |-> Deserialize(row.val)]
                     ELSE row

\* SELECT 1 FROM database WHERE key = ? LIMIT 1
HasImpl(db, key) == [found |-> key \in DOMAIN db]

\* REPLACE INTO database VALUES (?, ?)
SetImpl(db, key, value) ==
    [x \in DOMAIN db \cup {key} |-> IF x = key THEN value ELSE db[x]]

\* A DELETE that removes no row.
DeleteImplNoRow(db, key) == db

\* DELETE FROM database WHERE key = ?
DeleteImpl(db, key) == [x \in DOMAIN db \ {key} |-> db[x]]

\* The set of the elements of a list.
Range(seq) == {seq[i] : i \in DOMAIN seq}

\* A bulk get that hands back the rows found and nothing for the others.
BulkGetImplRowsOnly(db, keys) ==
    LET present(k) == k \in DOMAIN db
        found == SelectSeq(keys, present)
    IN  [i \in 1..Len(found) |-> [found |-> TRUE, val |-> db[found[i]]]]

\* _bulk_get_impl: SELECT key, value ... WHERE key IN (keys) gives the rows
\* found; the list has, per listed key, its row's value or a LookupError.
BulkGetImpl(db, keys) ==
    LET results == {<<k, db[k]>> : k \in Range(keys) \cap DOMAIN db}
        found_kv_pairs == [k \in {r[1] : r \in results} |->
                              (CHOOSE r \in results : r[1] = k)[2]]
    IN  [i \in 1..Len(keys) |->
            IF keys[i] \in DOMAIN found_kv_pairs
               THEN [found |-> TRUE, val |-> found_kv_pairs[keys[i]]]
               ELSE [found |-> FALSE]]

\* bulk_get: the values found deserialized, the LookupErrors left as they are.
BulkGetResult(db, keys) ==
    LET values_bytes == BulkGetImpl(db, keys)
    IN  [i \in 1..Len(values_bytes) |->
            IF values_bytes[i].found
               THEN [found |-> TRUE, val |-> Deserialize(values_bytes[i].val)]
               ELSE values_bytes[i]]

\* bulk_set: every value serialized before the statement runs.
BulkSetSerialized(key_value_pairs) ==
    [i \in 1..Len(key_value_pairs) |->
        <<key_value_pairs[i][1], Serialize(key_value_pairs[i][2])>>]

\* REPLACE INTO database VALUES with no row is not a statement: sqlite
\* raises OperationalError.
BulkSetRaises(key_value_pairs) == key_value_pairs = <<>>

\* The values a set or bulk_set call hands to the serializer, in order.
CallValues(call) ==
    IF call.op = "set" THEN <<call.val>>
    ELSE [i \in 1..Len(call.pairs) |-> call.pairs[i][2]]

\* Some value of the call fails to serialize.
SerializationRaises(call) ==
    \E i \in DOMAIN CallValues(call) : SerializeRaises(CallValues(call)[i])

\* A store that would enter the transaction first and serialize inside it.
SerializedInsideTxn(call) == TRUE

\* set and bulk_set serialize every value before they call
\* _ensure_execution_in_txn: the transaction is reached only when the
\* serializer has returned for all of them.
SerializedBeforeTxn(call) == ~SerializationRaises(call)

\* A REPLACE that stops after its first row.
BulkSetImplFirstRow(db, pairs) ==
    IF pairs = <<>> THEN db ELSE SetImpl(db, pairs[1][1], pairs[1][2])

\* _bulk_set_impl: REPLACE INTO database VALUES (?, ?),(?, ?),...: one
\* statement that replaces row after row in the order listed.
RECURSIVE BulkSetRows(_, _)
BulkSetRows(db, pairs) ==
    IF pairs = <<>> THEN db
    ELSE BulkSetRows(SetImpl(db, Head(pairs)[1], Head(pairs)[2]), Tail(pairs))

BulkSetImpl(db, pairs) == BulkSetRows(db, pairs)

\* _bulk_delete_impl, DELETE FROM database WHERE key IN (keys).
BulkDeleteRows(db, keys) == [x \in DOMAIN db \ Range(keys) |-> db[x]]

\* The keys found, looked up after the DELETE has run.
BulkDeleteFoundAfterwards(db, keys) ==
    Range(keys) \cap DOMAIN BulkDeleteRows(db, keys)

\* _bulk_delete_impl, SELECT key ... WHERE key IN (keys) before the DELETE.
BulkDeleteFound(db, keys) == Range(keys) \cap DOMAIN db

\* _bulk_delete_impl: per listed key, whether the SELECT found it.
BulkDeleteImpl(db, keys) ==
    LET found_keys == BulkDeleteFound(db, keys)
    IN  [i \in 1..Len(keys) |-> keys[i] \in found_keys]

\* ------------------------------------------------------------ queries
\* A key of a query is a str, here the sequence of its characters; an
\* optional argument is None or the value given.
None == <<>>

Some(x) == <<x>>

\* The code points of the characters the keys are written in.
Ord == ("%" :> 37) @@ ("A" :> 65) @@ ("_" :> 95) @@ ("a" :> 97) @@ ("b" :> 98)

\* sqlite's LIKE compares ASCII letters without regard to case.
Fold(c) == IF c = "A" THEN "a" ELSE c

\* sqlite's LIKE: % in the pattern stands for any run of characters, _ for
\* any one character, every other character for itself in either case.
RECURSIVE Like(_, _)
Like(pattern, str) ==
    IF pattern = <<>> THEN str = <<>>
    ELSE IF Head(pattern) = "%"
            THEN Like(Tail(pattern), str) \/ (str # <<>> /\ Like(pattern, Tail(str)))
    ELSE IF str = <<>> THEN FALSE
    ELSE IF Head(pattern) = "_" THEN Like(Tail(pattern), Tail(str))
    ELSE Fold(Head(pattern)) = Fold(Head(str)) /\ Like(Tail(pattern), Tail(str))

\* The order of the TEXT column key (BINARY collation): character by
\* character by code point, a proper prefix first.
RECURSIVE KeyLess(_, _)
KeyLess(k1, k2) ==
    IF k2 = <<>> THEN FALSE
    ELSE IF k1 = <<>> THEN TRUE
    ELSE IF Head(k1) # Head(k2) THEN Ord[Head(k1)] < Ord[Head(k2)]
    ELSE KeyLess(Tail(k1), Tail(k2))

KeyLessEq(k1, k2) == k1 = k2 \/ KeyLess(k1, k2)

\* A strict lower bound in place of the inclusive one.
SqlAtLeastStrict(key, bound) == KeyLess(bound, key)

\* WHERE key >= ?
SqlAtLeast(key, bound) == KeyLessEq(bound, key)

\* WHERE key <= ?
SqlAtMost(key, bound) == KeyLessEq(key, bound)

\* ORDER BY key ASC / DESC: the rows of the keys selected, in order.
RECURSIVE OrderByKey(_, _, _)
OrderByKey(db, keys, reverse) ==
    IF keys = {} THEN <<>>
    ELSE LET first == CHOOSE x \in keys : \A y \in keys \ {x} :
                         IF reverse THEN KeyLess(y, x) ELSE KeyLess(x, y)
         IN  <<(<<first, db[first]>>)>> \o OrderByKey(db, keys \ {first}, reverse)

\* A LIMIT that cuts the rows from the other end.
SqlLimitFromEnd(rows, limit) ==
    IF limit = None \/ limit[1] < 0 \/ limit[1] >= Len(rows) THEN rows
    ELSE SubSeq(rows, Len(rows) - limit[1] + 1, Len(rows))

\* LIMIT ?, absent when limit is None: the first limit rows (sqlite reads a
\* negative limit as no limit).
SqlLimit(rows, limit) ==
    IF limit = None \/ limit[1] < 0 \/ limit[1] >= Len(rows) THEN rows
    ELSE SubSeq(rows, 1, limit[1])

\* A prefix branch that orders as the caller asked.
PrefixReverseAsAsked(q) == q.reverse

\* The prefix branch orders with ORDER BY key, without a direction: ascending
\* whatever reverse is.
PrefixReverse(q) == FALSE

\* _query_impl: the branch taken builds the statement; with keyprefix, start
\* and end all None no branch is taken, sql is unbound and the execute line
\* raises UnboundLocalError.
QueryImpl(db, q) ==
    IF q.keyprefix # None
       THEN [raised |-> FALSE,
             rows |-> SqlLimit(OrderByKey(db,
                         {k \in DOMAIN db : Like(q.keyprefix[1] \o <<"%">>, k)},
                         PrefixReverse(q)), q.limit)]
    ELSE IF q.start # None /\ q.end # None
       THEN [raised |-> FALSE,
             rows |-> SqlLimit(OrderByKey(db,
                         {k \in DOMAIN db : SqlAtLeast(k, q.start[1])
                                             /\ SqlAtMost(k, q.end[1])},
                         q.reverse), q.limit)]
    ELSE IF q.start # None /\ q.end = None
       THEN [raised |-> FALSE,
             rows |-> SqlLimit(OrderByKey(db,
                         {k \in DOMAIN db : SqlAtLeast(k, q.start[1])},
                         q.reverse), q.limit)]
    ELSE IF q.start = None /\ q.end # None
       THEN [raised |-> FALSE,
             rows |-> SqlLimit(OrderByKey(db,
                         {k \in DOMAIN db : SqlAtMost(k, q.end[1])},
                         q.reverse), q.limit)]
    ELSE [raised |-> TRUE, error |-> "UnboundLocalError", rows |-> <<>>]

\* _SqlLiteHappyStore.query: the values of the rows deserialized.
QueryResult(db, q) ==
    LET kv_pairs_with_bytes_values == QueryImpl(db, q)
    IN  [kv_pairs_with_bytes_values EXCEPT !.rows =
            [i \in 1..Len(@) |-> <<@[i][1], Deserialize(@[i][2])>>]]

\* A query that checks nothing.
QueryValidAlways(q) == TRUE

\* HappyStore.query: keyprefix together with start or end is refused.
QueryValid(q) == ~(q.keyprefix # None /\ (q.start # None \/ q.end # None))

\* Two observations of one key agree: same presence, and the same value
\* when both carry one (has carries none).
Agree(o1, o2) ==
    /\ o1.found = o2.found
    /\ ("val" \in DOMAIN o1 /\ "val" \in DOMAIN o2) => o1.val = o2.val

\* ------------------------------------------------------ the RLock
\* A lock that excludes nobody.
RLockAcquirableByAnyone(t) == TRUE

\* A plain lock: its owner cannot take it again.
LockAcquirable(t) == txn_rlock.owner = NoThread

\* threading.RLock: acquire succeeds when free or owned by the caller.
RLockAcquirable(t) == txn_rlock.owner \in {NoThread, t}

RLockAcquire(lock, t, n) == [owner |-> t, count |-> lock.count + n]

RLockRelease(lock, n) ==
    IF lock.count - n <= 0 THEN [owner |-> NoThread, count |-> 0]
                           ELSE [owner |-> lock.owner, count |-> lock.count - n]

\* ------------------------------------------- sqlite savepoint statements
\* SAVEPOINT txn: push the current table.
SqlSavepoint(stack, db) == Append(stack, db)

\* ROLLBACK TO txn: back to the most recent savepoint named txn, which stays
\* on the stack.
SqlRollbackTo(stack, db) == IF stack = <<>> THEN db ELSE stack[Len(stack)]

\* RELEASE SAVEPOINT txn: drop the most recent savepoint named txn.
SqlRelease(stack) == IF stack = <<>> THEN stack ELSE SubSeq(stack, 1, Len(stack) - 1)

NoCall == [op |-> "none"]

\* A thread that iterates no scan.
NoScan == [phase |-> "none"]

\* The processes that open a handle of their own on one database file; no
\* process holds the file's lock when none has a transaction open.
Processes == {1, 2}

NoProcess == 0

\* The handle a process has just opened: no transaction, and the table its
\* connection sees and the table on file at its latest root begin (both
\* empty until it begins one).
NoHandle ==
    [pc |-> "idle", is_already_in_txn |-> FALSE, view |-> EmptyTable,
     before |-> EmptyTable]

InitWith(table, programs) ==
    /\ txn_rlock = [owner |-> NoThread, count |-> 0]
    /\ is_already_in_txn = FALSE
    /\ txn_nesting_level = 0
    /\ committed = table
    /\ content = table
    /\ savepoints = <<>>
    /\ pc = [t \in Threads |-> "idle"]
    /\ frames = [t \in Threads |-> <<>>]
    /\ start = table
    /\ todo = programs
    /\ last = NoCall
    /\ dirty = [t \in Threads |-> {}]
    /\ seen = [t \in Threads |-> EmptyTable]
    /\ stale = [t \in Threads |-> {}]
    /\ ideal = table
    /\ sqlite_connection_is_already_closed = FALSE
    /\ scans = [t \in Threads |-> NoScan]
    /\ exclusive_lock = NoProcess
    /\ handles = [p \in Processes |-> NoHandle]

\* A store just opened on a new database: the table is empty.
Init == InitWith(EmptyTable, [t \in Threads |-> <<>>])

\* ------------------------------------------------------------ helpers
Top(seq) == seq[Len(seq)]

Pop(seq) == SubSeq(seq, 1, Len(seq) - 1)

\* A thread running a fixed program has run its next statement.
Advance(t) ==
    /\ todo' = [todo EXCEPT ![t] = IF @ = <<>> THEN @ ELSE Tail(@)]
    /\ UNCHANGED start

\* The scope record a thread keeps per open `with store.transaction()` block:
\* the table and the exact-semantics table at entry, and the worst way in
\* which a scope opened inside it has ended so far: "none" (no inner scope),
\* "ok" (all committed), "abort" (some raised AbortionError, none failed),
\* "exc" (some failed with another exception); and whether a scope opened
\* directly inside it has committed into it (merged).
NewFrame(t) ==
    [entry |-> content,
     ientry |-> IF frames[t] = <<>> THEN content ELSE ideal,
     inner |-> "none",
     merged |-> FALSE]

Worst(x, y) ==
    LET rank == [none |-> 0, ok |-> 1, abort |-> 2, exc |-> 3]
    IN  IF rank[x] >= rank[y] THEN x ELSE y

\* The record of a read handed back to the caller: the observation, the one
\* this transaction made of the key before (if any), whether a nested
\* rollback lies between the two, and whether the transaction wrote the key.
ReadCall(op, t, key, obs) ==
    [op |-> op, t |-> t, key |-> key, res |-> obs,
     rep |-> key \in DOMAIN seen[t],
     prev |-> IF key \in DOMAIN seen[t] THEN seen[t][key] ELSE obs,
     crossed |-> key \in stale[t],
     own |-> key \in dirty[t],
     auto |-> pc[t] = "auto"]

\* ------------------------------------- the arms of transaction()'s exit
\* The except arms without their ROLLBACK at nesting level 0.
ExitContentNoRootRollback(rolled, db) ==
    IF ~rolled THEN db
    ELSE IF txn_nesting_level > 0 THEN SqlRollbackTo(savepoints, db)
    ELSE db

\* except AbortionError / except Exception: ROLLBACK TO txn or ROLLBACK;
\* else: RELEASE SAVEPOINT txn or COMMIT. db is the table the block leaves.
ExitContent(rolled, db) ==
    IF ~rolled THEN db
    ELSE IF txn_nesting_level > 0 THEN SqlRollbackTo(savepoints, db)
    ELSE committed

\* The else arm without its COMMIT.
ExitCommittedNever(rolled, db) == committed

ExitCommitted(rolled, db) ==
    IF ~rolled /\ ~(txn_nesting_level > 0) THEN db ELSE committed

ExitSavepoints(rolled) ==
    IF ~(txn_nesting_level > 0) THEN <<>>
    ELSE IF rolled THEN savepoints
    ELSE SqlRelease(savepoints)

\* Only the except Exception arm re-raises; AbortionError ends at the scope.
ExitRaises(outcome) == outcome = "exc"

\* A finally that leaves the flag set.
ExitFinallyKeepsFlag ==
    /\ txn_nesting_level' = (IF txn_nesting_level = 0 THEN 0 ELSE txn_nesting_level - 1)
    /\ UNCHANGED is_already_in_txn

\* finally: clear the flag at nesting level 0, else decrement the level.
ExitFinally ==
    IF txn_nesting_level = 0
       THEN /\ is_already_in_txn' = FALSE
            /\ UNCHANGED txn_nesting_level
       ELSE /\ txn_nesting_level' = txn_nesting_level - 1
            /\ UNCHANGED is_already_in_txn

\* ------------------------------------------------ transaction(): entry
\* with self._txn_rlock: ... SAVEPOINT txn / BEGIN EXCLUSIVE TRANSACTION; yield
TransactionEnterBody(t) ==
    /\ pc[t] \in {"idle", "in"}
    /\ RLockAcquirable(t)
    /\ ~sqlite_connection_is_already_closed
    /\ txn_rlock' = RLockAcquire(txn_rlock, t, 1)
    /\ IF is_already_in_txn
          THEN /\ txn_nesting_level' = txn_nesting_level + 1
               /\ savepoints' = SqlSavepoint(savepoints, content)
               /\ UNCHANGED is_already_in_txn
          ELSE /\ is_already_in_txn' = TRUE
               /\ UNCHANGED <<txn_nesting_level, savepoints>>
    /\ pc' = [pc EXCEPT ![t] = "in"]
    /\ frames' = [frames EXCEPT ![t] = Append(@, NewFrame(t))]
    /\ last' = [op |-> "begin", t |-> t, depth |-> Len(frames[t])]
    /\ IF frames[t] = <<>>
          THEN /\ dirty' = [dirty EXCEPT ![t] = {}]
               /\ seen' = [seen EXCEPT ![t] = EmptyTable]
               /\ stale' = [stale EXCEPT ![t] = {}]
               /\ ideal' = content
          ELSE UNCHANGED <<dirty, seen, stale, ideal>>
    /\ UNCHANGED <<committed, content>>

TransactionEnter(t) ==
    /\ TransactionEnterBody(t)
    /\ Advance(t)
    /\ UNCHANGED <<sqlite_connection_is_already_closed, scans,
                   exclusive_lock, handles>>

\* ------------------------------------------------- transaction(): exit
\* The except / else / finally arms of transaction() and the release of the
\* lock. outcome: "ok" (the block ended), "abort" (AbortionError), "exc" (any
\* other exception); caught: the caller catches a re-raised exception before
\* it reaches the enclosing block. A thread at "raising" carries an exception
\* the scope just left re-raised into the enclosing block, which can only
\* leave by it.
TransactionExitBody(t, outcome, caught) ==
    /\ frames[t] # <<>>
    /\ ~sqlite_connection_is_already_closed
    /\ pc[t] \in (IF outcome = "exc" THEN {"in", "raising"} ELSE {"in"})
    /\ LET fr == Top(frames[t])
           rest == Pop(frames[t])
           rolled == outcome # "ok"
       IN  /\ content' = ExitContent(rolled, content)
           /\ committed' = ExitCommitted(rolled, content)
           /\ savepoints' = ExitSavepoints(rolled)
           /\ ExitFinally
           /\ txn_rlock' = RLockRelease(txn_rlock, 1)
           /\ frames' = [frames EXCEPT ![t] =
                 IF rest = <<>> THEN rest
                 ELSE [rest EXCEPT ![Len(rest)] =
                          [@ EXCEPT !.inner = Worst(@, Worst(fr.inner, outcome)),
                                    !.merged = @ \/ ~rolled]]]
           /\ pc' = [pc EXCEPT ![t] =
                 IF rest = <<>> THEN "idle"
                 ELSE IF outcome = "exc" /\ ~caught THEN "raising"
                 ELSE "in"]
           /\ last' = [op |-> "exit", t |-> t, outcome |-> outcome,
                       depth |-> Len(rest), raised |-> ExitRaises(outcome),
                       entry |-> fr.entry, before |-> content,
                       ideal |-> IF rolled THEN fr.ientry ELSE ideal,
                       inner |-> fr.inner, merged |-> fr.merged,
                       wrote |-> dirty[t],
                       propagated |-> pc[t] = "raising"]
           /\ ideal' = IF rest = <<>> THEN ExitCommitted(rolled, content)
                       ELSE IF rolled THEN fr.ientry
                       ELSE ideal
           /\ dirty' = [dirty EXCEPT ![t] = IF rest = <<>> THEN {} ELSE @]
           /\ seen' = [seen EXCEPT ![t] = IF rest = <<>> THEN EmptyTable ELSE @]
           /\ stale' = [stale EXCEPT ![t] =
                 IF rest = <<>> THEN {}
                 ELSE IF rolled THEN DOMAIN seen[t]
                 ELSE @]

TransactionExit(t, outcome, caught) ==
    /\ TransactionExitBody(t, outcome, caught)
    /\ Advance(t)
    /\ UNCHANGED <<sqlite_connection_is_already_closed, scans,
                   exclusive_lock, handles>>

\* ------------------------------- operations inside an active transaction
\* _ensure_execution_in_txn without its `with self._txn_rlock`.
InTxnUnlocked(t) ==
    /\ pc[t] \in {"idle", "in"}
    /\ is_already_in_txn

\* _ensure_execution_in_txn with _is_already_in_txn set: take the lock,
\* run f directly, release the lock.
InTxn(t) ==
    /\ pc[t] \in {"idle", "in"}
    /\ RLockAcquirable(t)
    /\ is_already_in_txn
    /\ ~sqlite_connection_is_already_closed

Get(t, key) ==
    /\ InTxn(t)
    /\ last' = ReadCall("get", t, key, GetResult(content, key))
    /\ seen' = [seen EXCEPT ![t] = SetImpl(@, key, GetResult(content, key))]
    /\ stale' = [stale EXCEPT ![t] = @ \ {key}]
    /\ Advance(t)
    /\ UNCHANGED <<sqlite_connection_is_already_closed, scans,
                   exclusive_lock, handles>>
    /\ UNCHANGED <<txn_rlock, is_already_in_txn, txn_nesting_level, committed,
                   content, savepoints, pc, frames, dirty, ideal>>

Has(t, key) ==
    /\ InTxn(t)
    /\ last' = ReadCall("has", t, key, HasImpl(content, key))
    /\ seen' = [seen EXCEPT ![t] = SetImpl(@, key, HasImpl(content, key))]
    /\ stale' = [stale EXCEPT ![t] = @ \ {key}]
    /\ Advance(t)
    /\ UNCHANGED <<sqlite_connection_is_already_closed, scans,
                   exclusive_lock, handles>>
    /\ UNCHANGED <<txn_rlock, is_already_in_txn, txn_nesting_level, committed,
                   content, savepoints, pc, frames, dirty, ideal>>

Set(t, key, value) ==
    /\ ~SerializeRaises(value)
    /\ InTxn(t)
    /\ content' = SetImpl(content, key, Serialize(value))
    /\ ideal' = SetImpl(ideal, key, Serialize(value))
    /\ last' = [op |-> "set", t |-> t, key |-> key, val |-> value, auto |-> FALSE]
    /\ dirty' = [dirty EXCEPT ![t] = @ \cup {key}]
    /\ seen' = [seen EXCEPT ![t] = DeleteImpl(@, key)]
    /\ stale' = [stale EXCEPT ![t] = @ \ {key}]
    /\ Advance(t)
    /\ UNCHANGED <<sqlite_connection_is_already_closed, scans,
                   exclusive_lock, handles>>
    /\ UNCHANGED <<txn_rlock, is_already_in_txn, txn_nesting_level, committed,
                   savepoints, pc, frames>>

Delete(t, key) ==
    /\ InTxn(t)
    /\ content' = DeleteImpl(content, key)
    /\ ideal' = DeleteImpl(ideal, key)
    /\ last' = [op |-> "delete", t |-> t, key |-> key,
                res |-> key \in DOMAIN content, auto |-> FALSE]
    /\ dirty' = [dirty EXCEPT ![t] = @ \cup {key}]
    /\ seen' = [seen EXCEPT ![t] = DeleteImpl(@, key)]
    /\ stale' = [stale EXCEPT ![t] = @ \ {key}]
    /\ Advance(t)
    /\ UNCHANGED <<sqlite_connection_is_already_closed, scans,
                   exclusive_lock, handles>>
    /\ UNCHANGED <<txn_rlock, is_already_in_txn, txn_nesting_level, committed,
                   savepoints, pc, frames>>

\* The bulk operations inside an active transaction. A bulk_set whose
\* statement raises changes nothing; the exception is the caller's to catch
\* or to let leave the scope.
BulkGet(t, keys) ==
    /\ InTxn(t)
    /\ last' = [op |-> "bulk_get", t |-> t, keys |-> keys,
                res |-> BulkGetResult(content, keys), raised |-> FALSE,
                own |-> Range(keys) \cap dirty[t] # {}, auto |-> FALSE]
    /\ Advance(t)
    /\ UNCHANGED <<sqlite_connection_is_already_closed, scans,
                   exclusive_lock, handles>>
    /\ UNCHANGED <<txn_rlock, is_already_in_txn, txn_nesting_level, committed,
                   content, savepoints, pc, frames, dirty, seen, stale, ideal>>

BulkSet(t, key_value_pairs) ==
    /\ ~SerializationRaises([op |-> "bulk_set", pairs |-> key_value_pairs])
    /\ InTxn(t)
    /\ LET pairs == BulkSetSerialized(key_value_pairs)
           raises == BulkSetRaises(key_value_pairs)
           keys == IF raises THEN {} ELSE {pairs[i][1] : i \in DOMAIN pairs}
       IN  /\ content' = IF raises THEN content ELSE BulkSetImpl(content, pairs)
           /\ ideal' = IF raises THEN ideal ELSE BulkSetImpl(ideal, pairs)
           /\ last' = [op |-> "bulk_set", t |-> t, pairs |-> key_value_pairs,
                       raised |-> raises, auto |-> FALSE]
           /\ dirty' = [dirty EXCEPT ![t] = @ \cup keys]
           /\ seen' = [seen EXCEPT ![t] = [x \in DOMAIN @ \ keys |-> @[x]]]
           /\ stale' = [stale EXCEPT ![t] = @ \ keys]
    /\ Advance(t)
    /\ UNCHANGED <<sqlite_connection_is_already_closed, scans,
                   exclusive_lock, handles>>
    /\ UNCHANGED <<txn_rlock, is_already_in_txn, txn_nesting_level, committed,
                   savepoints, pc, frames>>

BulkDelete(t, keys) ==
    /\ InTxn(t)
    /\ content' = BulkDeleteRows(content, keys)
    /\ ideal' = BulkDeleteRows(ideal, keys)
    /\ last' = [op |-> "bulk_delete", t |-> t, keys |-> keys,
                res |-> BulkDeleteImpl(content, keys), auto |-> FALSE]
    /\ dirty' = [dirty EXCEPT ![t] = @ \cup Range(keys)]
    /\ seen' = [seen EXCEPT ![t] = [x \in DOMAIN @ \ Range(keys) |-> @[x]]]
    /\ stale' = [stale EXCEPT ![t] = @ \ Range(keys)]
    /\ Advance(t)
    /\ UNCHANGED <<sqlite_connection_is_already_closed, scans,
                   exclusive_lock, handles>>
    /\ UNCHANGED <<txn_rlock, is_already_in_txn, txn_nesting_level, committed,
                   savepoints, pc, frames>>

\* HappyStore.query refuses the arguments with RuntimeError before it calls
\* the store: no lock is taken and nothing is touched.
QueryRejected(t, q) ==
    /\ pc[t] \in {"idle", "in"}
    /\ ~QueryValid(q)
    /\ last' = [op |-> "query", t |-> t, q |-> q, raised |-> TRUE,
                error |-> "RuntimeError", rows |-> <<>>, auto |-> FALSE]
    /\ Advance(t)
    /\ UNCHANGED <<sqlite_connection_is_already_closed, scans,
                   exclusive_lock, handles>>
    /\ UNCHANGED <<txn_rlock, is_already_in_txn, txn_nesting_level, committed,
                   content, savepoints, pc, frames, dirty, seen, stale, ideal>>

\* query inside an active transaction; when _query_impl raises, the
\* exception is the caller's to catch or to let leave the scope.
Query(t, q) ==
    /\ QueryValid(q)
    /\ InTxn(t)
    /\ last' = [op |-> "query", t |-> t, q |-> q, auto |-> FALSE]
                  @@ QueryResult(content, q)
    /\ Advance(t)
    /\ UNCHANGED <<sqlite_connection_is_already_closed, scans,
                   exclusive_lock, handles>>
    /\ UNCHANGED <<txn_rlock, is_already_in_txn, txn_nesting_level, committed,
                   content, savepoints, pc, frames, dirty, seen, stale, ideal>>

\* ------------------------------ operations outside any active transaction
\* _ensure_execution_in_txn with _is_already_in_txn clear: take the lock and
\* enter self.transaction() (which takes the lock again and begins).
EnsureEnter(t) ==
    /\ pc[t] = "idle"
    /\ RLockAcquirable(t)
    /\ ~is_already_in_txn
    /\ ~sqlite_connection_is_already_closed
    /\ txn_rlock' = RLockAcquire(txn_rlock, t, 2)
    /\ is_already_in_txn' = TRUE
    /\ pc' = [pc EXCEPT ![t] = "auto"]
    /\ frames' = [frames EXCEPT ![t] = <<NewFrame(t)>>]
    /\ last' = [op |-> "ensure", t |-> t]
    /\ dirty' = [dirty EXCEPT ![t] = {}]
    /\ seen' = [seen EXCEPT ![t] = EmptyTable]
    /\ stale' = [stale EXCEPT ![t] = {}]
    /\ ideal' = content
    /\ UNCHANGED <<txn_nesting_level, committed, content, savepoints, start, todo,
                   sqlite_connection_is_already_closed, scans,
                   exclusive_lock, handles>>

\* f runs inside the implicit transaction, which then commits (or rolls back
\* when f raised), clears the flag and releases both holds of the lock.
AutoFinish(t, db, raised, call) ==
    /\ pc[t] = "auto"
    /\ content' = ExitContent(raised, db)
    /\ committed' = ExitCommitted(raised, db)
    /\ savepoints' = ExitSavepoints(raised)
    /\ ExitFinally
    /\ txn_rlock' = RLockRelease(txn_rlock, 2)
    /\ pc' = [pc EXCEPT ![t] = "idle"]
    /\ frames' = [frames EXCEPT ![t] = <<>>]
    /\ last' = call
    /\ dirty' = [dirty EXCEPT ![t] = {}]
    /\ seen' = [seen EXCEPT ![t] = EmptyTable]
    /\ stale' = [stale EXCEPT ![t] = {}]
    /\ ideal' = ExitCommitted(raised, db)
    /\ Advance(t)
    /\ UNCHANGED <<sqlite_connection_is_already_closed, scans,
                   exclusive_lock, handles>>

AutoGet(t, key) ==
    AutoFinish(t, content, key \notin DOMAIN content,
               ReadCall("get", t, key, GetResult(content, key)))

AutoHas(t, key) ==
    AutoFinish(t, content, FALSE,
               ReadCall("has", t, key, HasImpl(content, key)))

AutoSet(t, key, value) ==
    /\ ~SerializeRaises(value)
    /\ AutoFinish(t, SetImpl(content, key, Serialize(value)), FALSE,
               [op |-> "set", t |-> t, key |-> key, val |-> value, auto |-> TRUE])

AutoDelete(t, key) ==
    AutoFinish(t, DeleteImpl(content, key), FALSE,
               [op |-> "delete", t |-> t, key |-> key,
                res |-> key \in DOMAIN content, auto |-> TRUE])

AutoBulkGet(t, keys) ==
    AutoFinish(t, content, FALSE,
               [op |-> "bulk_get", t |-> t, keys |-> keys,
                res |-> BulkGetResult(content, keys), raised |-> FALSE,
                own |-> FALSE, auto |-> TRUE])

AutoBulkSet(t, key_value_pairs) ==
    /\ ~SerializationRaises([op |-> "bulk_set", pairs |-> key_value_pairs])
    /\ AutoFinish(t, BulkSetImpl(content, BulkSetSerialized(key_value_pairs)),
               BulkSetRaises(key_value_pairs),
               [op |-> "bulk_set", t |-> t, pairs |-> key_value_pairs,
                raised |-> BulkSetRaises(key_value_pairs), auto |-> TRUE])

AutoBulkDelete(t, keys) ==
    AutoFinish(t, BulkDeleteRows(content, keys), FALSE,
               [op |-> "bulk_delete", t |-> t, keys |-> keys,
                res |-> BulkDeleteImpl(content, keys), auto |-> TRUE])

AutoQuery(t, q) ==
    /\ QueryValid(q)
    /\ AutoFinish(t, content, QueryImpl(content, q).raised,
                  [op |-> "query", t |-> t, q |-> q, auto |-> TRUE]
                     @@ QueryResult(content, q))

\* ---------------------------------------------------------------- scan
\* SELECT key, value FROM database WHERE key >= ? ORDER BY key LIMIT ?
\* with params [next_key, pagesize + 1].
ScanPage(db, next_key, pagesize) ==
    SqlLimit(OrderByKey(db, {k \in DOMAIN db : SqlAtLeast(k, next_key)}, FALSE),
             Some(pagesize + 1))

\* A page that keeps the row the cursor was taken from.
ScanKeepAll(page) == page

\* page.pop(): the last row, whose key is the next cursor, is dropped from
\* the page and fetched again as the first row of the next one.
ScanKeep(page) == Pop(page)

\* The rows of a page with their values deserialized.
ScanDeserialized(page) ==
    [i \in 1..Len(page) |-> <<page[i][1], Deserialize(page[i][2])>>]

\* The generator stands at the top of its while loop: just created, or
\* resumed after the last pair of a page that was not the final one.
ScanAtLoop(t) ==
    \/ scans[t].phase = "loop"
    \/ scans[t].phase = "yield" /\ scans[t].page = <<>> /\ ~scans[t].final

\* scan(pagesize) with an int pagesize: the generator is created with
\* next_key = ''; nothing runs until the consumer asks for a pair. fetched
\* records the key sets the table had at the page fetches made so far.
ScanCall(t, pagesize) ==
    /\ pc[t] \in {"idle", "in"}
    /\ scans[t] = NoScan
    /\ scans' = [scans EXCEPT ![t] =
          [phase |-> "loop", pagesize |-> pagesize, next_key |-> <<>>,
           page |-> <<>>, final |-> FALSE, yielded |-> <<>>,
           depth |-> Len(frames[t]), fetched |-> {}]]
    /\ last' = [op |-> "scan_call", t |-> t]
    /\ UNCHANGED <<txn_rlock, is_already_in_txn, txn_nesting_level, committed,
                   content, savepoints, pc, frames, start, todo, dirty, seen,
                   stale, ideal, sqlite_connection_is_already_closed,
                   exclusive_lock, handles>>

\* with self.transaction(): entry, for one page.
ScanPageEnter(t) ==
    /\ ScanAtLoop(t)
    /\ TransactionEnterBody(t)
    /\ scans' = [scans EXCEPT ![t] = [@ EXCEPT !.phase = "page"]]
    /\ UNCHANGED <<start, todo, sqlite_connection_is_already_closed,
                   exclusive_lock, handles>>

\* A with block that is still open when the page is judged and yielded.
ScanPageStaysOpen(t) ==
    /\ last' = [op |-> "fetch", t |-> t]
    /\ UNCHANGED <<txn_rlock, is_already_in_txn, txn_nesting_level, committed,
                   content, savepoints, pc, frames, dirty, seen, stale, ideal>>

\* The with block of one page ends without an exception: COMMIT (RELEASE
\* SAVEPOINT txn inside a scope of the consumer), and the lock is released.
ScanPageExit(t) == TransactionExitBody(t, "ok", FALSE)

\* The page is fetched and the with block left; then the page is judged:
\* shorter than pagesize + 1 it is the final one; else its last key becomes
\* the cursor (page[-1] of an empty page raises IndexError) and its last row
\* is popped.
ScanPageFetch(t) ==
    /\ scans[t].phase = "page"
    /\ ScanPageExit(t)
    /\ LET page == ScanPage(content, scans[t].next_key, scans[t].pagesize)
           gen == [scans[t] EXCEPT !.fetched = @ \cup {DOMAIN content}]
       IN  scans' = [scans EXCEPT ![t] =
              IF Len(page) < scans[t].pagesize + 1
                 THEN [gen EXCEPT !.phase = "yield", !.final = TRUE,
                                  !.page = ScanDeserialized(page)]
              ELSE IF page = <<>>
                 THEN [gen EXCEPT !.phase = "raise"]
              ELSE [gen EXCEPT !.phase = "yield",
                               !.next_key = Top(page)[1],
                               !.page = ScanDeserialized(ScanKeep(page))]]
    /\ UNCHANGED <<start, todo, sqlite_connection_is_already_closed,
                   exclusive_lock, handles>>

\* yield item: the consumer receives the next pair of the page.
ScanYield(t) ==
    /\ scans[t].phase = "yield"
    /\ scans[t].page # <<>>
    /\ scans' = [scans EXCEPT ![t] =
          [@ EXCEPT !.page = Tail(@), !.yielded = Append(@, Head(scans[t].page))]]
    /\ last' = [op |-> "yield", t |-> t, item |-> Head(scans[t].page),
                depth |-> Len(frames[t])]
    /\ UNCHANGED <<txn_rlock, is_already_in_txn, txn_nesting_level, committed,
                   content, savepoints, pc, frames, start, todo, dirty, seen,
                   stale, ideal, sqlite_connection_is_already_closed,
                   exclusive_lock, handles>>

\* break after the final page: the iteration is exhausted.
ScanStop(t) ==
    /\ scans[t].phase = "yield"
    /\ scans[t].page = <<>>
    /\ scans[t].final
    /\ scans' = [scans EXCEPT ![t] = NoScan]
    /\ last' = [op |-> "scan", t |-> t, pagesize |-> scans[t].pagesize,
                raised |-> FALSE, res |-> scans[t].yielded,
                depth |-> Len(frames[t]), fetched |-> scans[t].fetched]
    /\ Advance(t)
    /\ UNCHANGED <<txn_rlock, is_already_in_txn, txn_nesting_level, committed,
                   content, savepoints, pc, frames, dirty, seen, stale, ideal,
                   sqlite_connection_is_already_closed,
                   exclusive_lock, handles>>

\* page[-1] of an empty page: IndexError leaves the generator and reaches the
\* consumer, inside whatever scope the consumer has open.
ScanRaise(t) ==
    /\ scans[t].phase = "raise"
    /\ scans' = [scans EXCEPT ![t] = NoScan]
    /\ pc' = [pc EXCEPT ![t] = IF frames[t] = <<>> THEN @ ELSE "raising"]
    /\ last' = [op |-> "scan", t |-> t, pagesize |-> scans[t].pagesize,
                raised |-> TRUE, error |-> "IndexError",
                res |-> scans[t].yielded, depth |-> Len(frames[t])]
    /\ Advance(t)
    /\ UNCHANGED <<txn_rlock, is_already_in_txn, txn_nesting_level, committed,
                   content, savepoints, frames, dirty, seen, stale, ideal,
                   sqlite_connection_is_already_closed,
                   exclusive_lock, handles>>

\* --------------------------------------------- serialization failure
\* set or bulk_set with a value the serializer refuses: SerializationError
\* leaves the call from the serialize line, before the lock is asked for.
SerializationFailed(t, call) ==
    /\ pc[t] \in {"idle", "in"}
    /\ call.op \in {"set", "bulk_set"}
    /\ SerializationRaises(call)
    /\ last' = [op |-> call.op, t |-> t, failed |-> TRUE, raised |-> TRUE,
                error |-> "SerializationError", values |-> CallValues(call),
                depth |-> Len(frames[t])]
    /\ Advance(t)
    /\ UNCHANGED <<txn_rlock, is_already_in_txn, txn_nesting_level, committed,
                   content, savepoints, pc, frames, dirty, seen, stale, ideal,
                   sqlite_connection_is_already_closed, scans,
                   exclusive_lock, handles>>

\* ------------------------------------------- the checks of key types
\* type(key) is not str; for query, type(...) not in (str, type(None)).
KeyTypeOk(op, type) ==
    IF op = "query" THEN type \in {"str", "NoneType"} ELSE type = "str"

\* The exception the failed check ends in: TypeError is what the raise
\* statements name; those of query format their message with `key`, a name
\* query does not have, so that building the TypeError raises NameError.
KeyTypeError(op) == IF op = "query" THEN "NameError" ELSE "TypeError"

\* A call carries the types of its key arguments, in order: of the key, of
\* each element of keys or of each pair's first item, of keyprefix, start
\* and end.
KeyTypesOk(call) == \A i \in DOMAIN call.types : KeyTypeOk(call.op, call.types[i])

\* HappyStore.get ... HappyStore.query with a key argument of another type:
\* the raise statement ends the call before _happy_store_impl is reached.
KeyTypeRejected(t, call) ==
    /\ pc[t] \in {"idle", "in"}
    /\ ~KeyTypesOk(call)
    /\ last' = [op |-> call.op, t |-> t, rejected |-> TRUE, raised |-> TRUE,
                error |-> KeyTypeError(call.op), depth |-> Len(frames[t])]
    /\ Advance(t)
    /\ UNCHANGED <<txn_rlock, is_already_in_txn, txn_nesting_level, committed,
                   content, savepoints, pc, frames, dirty, seen, stale, ideal,
                   sqlite_connection_is_already_closed, scans,
                   exclusive_lock, handles>>

\* --------------------------------------------------------------- close
\* close(): under the lock; the first call sets the flag and closes the
\* connection, which discards an open transaction with its savepoints; a
\* later call finds the flag set and does nothing.
Close(t) ==
    /\ pc[t] \in {"idle", "in"}
    /\ RLockAcquirable(t)
    /\ sqlite_connection_is_already_closed' = TRUE
    /\ content' = IF sqlite_connection_is_already_closed THEN content ELSE committed
    /\ savepoints' = IF sqlite_connection_is_already_closed THEN savepoints ELSE <<>>
    /\ ideal' = IF sqlite_connection_is_already_closed THEN ideal ELSE committed
    /\ last' = [op |-> "close", t |-> t,
                first |-> ~sqlite_connection_is_already_closed,
                depth |-> Len(frames[t])]
    /\ UNCHANGED <<txn_rlock, is_already_in_txn, txn_nesting_level, committed, pc,
                   frames, start, todo, dirty, seen, stale, scans,
                   exclusive_lock, handles>>

\* What a caller can ask of the store besides close.
Calls ==
    {"get", "set", "has", "delete", "bulk_get", "bulk_set", "bulk_delete",
     "query", "scan", "transaction"}

\* On a closed connection, transaction() is entered (by a with statement, by
\* the first page of a scan, or by _ensure_execution_in_txn for an operation
\* called outside any transaction, which holds the lock itself as well): the
\* lock is taken and the flag set or the level raised; the BEGIN or SAVEPOINT
\* statement then raises ProgrammingError.
EnterClosed(t, call) ==
    /\ pc[t] \in {"idle", "in"}
    /\ RLockAcquirable(t)
    /\ sqlite_connection_is_already_closed
    /\ call \in {"scan", "transaction"} \/ ~is_already_in_txn
    /\ txn_rlock' = RLockAcquire(txn_rlock, t,
                                 IF call \in {"scan", "transaction"} THEN 1 ELSE 2)
    /\ IF is_already_in_txn
          THEN /\ txn_nesting_level' = txn_nesting_level + 1
               /\ UNCHANGED is_already_in_txn
          ELSE /\ is_already_in_txn' = TRUE
               /\ UNCHANGED txn_nesting_level
    /\ pc' = [pc EXCEPT ![t] = "failing"]
    /\ last' = [op |-> "enter_closed", t |-> t, call |-> call]
    /\ UNCHANGED <<committed, content, savepoints, frames, start, todo, dirty,
                   seen, stale, ideal, sqlite_connection_is_already_closed, scans,
                   exclusive_lock, handles>>

\* The except Exception arm (its ROLLBACK raises in turn), the finally arm
\* and the release of the lock; the exception reaches the caller, inside
\* whatever scope the caller has open.
FailClosed(t, caught) ==
    /\ pc[t] = "failing"
    /\ ExitFinally
    /\ txn_rlock' = RLockRelease(txn_rlock,
                                 IF frames[t] = <<>> THEN txn_rlock.count ELSE 1)
    /\ pc' = [pc EXCEPT ![t] =
          IF frames[t] = <<>> THEN "idle"
          ELSE IF caught THEN "in"
          ELSE "raising"]
    /\ last' = [op |-> "closed", t |-> t, call |-> last.call, raised |-> TRUE,
                error |-> "ProgrammingError", depth |-> Len(frames[t])]
    /\ UNCHANGED <<committed, content, savepoints, frames, start, todo, dirty,
                   seen, stale, ideal, sqlite_connection_is_already_closed, scans,
                   exclusive_lock, handles>>

\* An operation called inside an open scope of the caller on a closed
\* connection: _ensure_execution_in_txn takes the lock, finds the flag set
\* and runs f, whose statement raises ProgrammingError; the lock is given
\* back and the exception reaches the caller's block.
OpClosed(t, call, caught) ==
    /\ pc[t] = "in"
    /\ RLockAcquirable(t)
    /\ is_already_in_txn
    /\ sqlite_connection_is_already_closed
    /\ call \notin {"scan", "transaction"}
    /\ pc' = [pc EXCEPT ![t] = IF caught THEN "in" ELSE "raising"]
    /\ last' = [op |-> "closed", t |-> t, call |-> call, raised |-> TRUE,
                error |-> "ProgrammingError", depth |-> Len(frames[t])]
    /\ UNCHANGED <<txn_rlock, is_already_in_txn, txn_nesting_level, committed,
                   content, savepoints, frames, start, todo, dirty, seen, stale,
                   ideal, sqlite_connection_is_already_closed, scans,
                   exclusive_lock, handles>>

\* A scope that was open when the connection was closed is left: whichever
\* arm runs, its statement raises ProgrammingError; finally clears the flag
\* or lowers the level, and the lock is released.
TransactionExitClosed(t, outcome, caught) ==
    /\ frames[t] # <<>>
    /\ sqlite_connection_is_already_closed
    /\ pc[t] \in (IF outcome = "exc" THEN {"in", "raising"} ELSE {"in"})
    /\ LET rest == Pop(frames[t])
       IN  /\ ExitFinally
           /\ txn_rlock' = RLockRelease(txn_rlock, 1)
           /\ frames' = [frames EXCEPT ![t] = rest]
           /\ pc' = [pc EXCEPT ![t] =
                 IF rest = <<>> THEN "idle"
                 ELSE IF caught THEN "in"
                 ELSE "raising"]
           /\ last' = [op |-> "exit_closed", t |-> t, outcome |-> outcome,
                       raised |-> TRUE, error |-> "ProgrammingError",
                       depth |-> Len(rest)]
           /\ dirty' = [dirty EXCEPT ![t] = IF rest = <<>> THEN {} ELSE @]
           /\ seen' = [seen EXCEPT ![t] = IF rest = <<>> THEN EmptyTable ELSE @]
           /\ stale' = [stale EXCEPT ![t] = IF rest = <<>> THEN {} ELSE @]
    /\ UNCHANGED <<committed, content, savepoints, start, todo, ideal,
                   sqlite_connection_is_already_closed, scans,
                   exclusive_lock, handles>>

\* ------------------------------------------------------ specification
Outcomes == {"ok", "abort", "exc"}

\* The connection can take one more savepoint within the bound.
Room(bound) == Len(savepoints) < bound

\* Threads that call the store freely: any operation, any scope nesting,
\* any way of leaving a scope.
Next ==
    \E t \in Threads :
       \/ Room(MaxNest) /\ TransactionEnter(t)
       \/ \E o \in Outcomes, c \in BOOLEAN : TransactionExit(t, o, c)
       \/ EnsureEnter(t)
       \/ \E k \in TxnKeys :
            \/ Get(t, k)
            \/ Has(t, k)
            \/ Delete(t, k)
            \/ AutoGet(t, k)
            \/ AutoHas(t, k)
            \/ AutoDelete(t, k)
            \/ \E v \in TxnValues : Set(t, k, v) \/ AutoSet(t, k, v)

Spec == Init /\ [][Next]_vars

\* One thread that nests its scopes deeper.
NextNest ==
    \E t \in {1} :
       \/ Room(MaxSavepoints) /\ TransactionEnter(t)
       \/ \E o \in Outcomes, c \in BOOLEAN : TransactionExit(t, o, c)
       \/ EnsureEnter(t)
       \/ \E k \in TxnKeys :
            \/ Get(t, k)
            \/ Has(t, k)
            \/ Delete(t, k)
            \/ AutoGet(t, k)
            \/ AutoHas(t, k)
            \/ AutoDelete(t, k)
            \/ \E v \in TxnValues : Set(t, k, v) \/ AutoSet(t, k, v)

SpecNest == Init /\ [][NextNest]_vars

\* ------------------------------------------------ threads with programs
\* A statement whose condition is false: the thread just moves on.
Skip(t) ==
    /\ todo[t] # <<>>
    /\ last' = [op |-> "skip", t |-> t]
    /\ Advance(t)
    /\ UNCHANGED <<sqlite_connection_is_already_closed, scans,
                   exclusive_lock, handles>>
    /\ UNCHANGED <<txn_rlock, is_already_in_txn, txn_nesting_level, committed,
                   content, savepoints, pc, frames, dirty, seen, stale, ideal>>

AllDone == \A t \in Threads : todo[t] = <<>>

\* The next statement of thread t's program is an op statement.
At(t, op) == todo[t] # <<>> /\ Head(todo[t]).op = op

Stmt(t) == Head(todo[t])

\* with store.transaction(): val = store.get(k); store.set(k, val + 1)
IncProgram(key) ==
    <<[op |-> "begin"], [op |-> "get", key |-> key],
      [op |-> "inc", key |-> key], [op |-> "end"]>>

InitInc ==
    \E key \in Keys :
       \E table \in {tb \in Tables : key \in DOMAIN tb} :
          InitWith(table, [t \in Threads |-> IncProgram(key)])

NextInc ==
    \E t \in Threads :
       \/ At(t, "begin") /\ TransactionEnter(t)
       \/ At(t, "get") /\ Get(t, Stmt(t).key)
       \/ At(t, "inc") /\ Set(t, Stmt(t).key, seen[t][Stmt(t).key].val + 1)
       \/ At(t, "end") /\ TransactionExit(t, "ok", FALSE)

SpecInc == InitInc /\ [][NextInc]_vars

\* x: with store.transaction(): if store.has('b'): store.delete('a')
\* y: with store.transaction(): if store.has('a'): store.delete('b')
SkewProgram(check, del) ==
    <<[op |-> "begin"], [op |-> "has", key |-> check],
      [op |-> "delete", key |-> del, cond |-> check], [op |-> "end"]>>

InitSkew ==
    \E table \in Tables :
       InitWith(table, [t \in Threads |-> IF t % 2 = 1 THEN SkewProgram("b", "a")
                                                       ELSE SkewProgram("a", "b")])

NextSkew ==
    \E t \in Threads :
       \/ At(t, "begin") /\ TransactionEnter(t)
       \/ At(t, "has") /\ Has(t, Stmt(t).key)
       \/ At(t, "delete") /\ seen[t][Stmt(t).cond].found /\ Delete(t, Stmt(t).key)
       \/ At(t, "delete") /\ ~seen[t][Stmt(t).cond].found /\ Skip(t)
       \/ At(t, "end") /\ TransactionExit(t, "ok", FALSE)

SpecSkew == InitSkew /\ [][NextSkew]_vars

\* One thread runs PointLen point operations on any keys, the first few of
\* them inside one transaction scope that commits and the rest outside any
\* scope, on a store that may already hold entries.
PointOps ==
    {[op |-> "set", key |-> k, val |-> v] : k \in Keys, v \in Values}
       \cup {[op |-> o, key |-> k] : o \in {"delete", "get", "has"}, k \in Keys}

PointPrograms ==
    {<<[op |-> "begin"]>> \o SubSeq(ops, 1, i) \o <<[op |-> "end"]>>
        \o SubSeq(ops, i + 1, PointLen) :
           ops \in [1..PointLen -> PointOps], i \in 0..PointLen}

InitPoint ==
    \E table \in Tables, program \in PointPrograms :
       InitWith(table, [t \in Threads |-> IF t = 1 THEN program ELSE <<>>])

NextPoint ==
    \E t \in {1} :
       \/ At(t, "begin") /\ TransactionEnter(t)
       \/ At(t, "end") /\ TransactionExit(t, "ok", FALSE)
       \/ todo[t] # <<>> /\ Stmt(t).op \notin {"begin", "end"} /\ EnsureEnter(t)
       \/ At(t, "set") /\ Set(t, Stmt(t).key, Stmt(t).val)
       \/ At(t, "set") /\ AutoSet(t, Stmt(t).key, Stmt(t).val)
       \/ At(t, "delete") /\ Delete(t, Stmt(t).key)
       \/ At(t, "delete") /\ AutoDelete(t, Stmt(t).key)
       \/ At(t, "get") /\ Get(t, Stmt(t).key)
       \/ At(t, "get") /\ AutoGet(t, Stmt(t).key)
       \/ At(t, "has") /\ Has(t, Stmt(t).key)
       \/ At(t, "has") /\ AutoHas(t, Stmt(t).key)

SpecPoint == InitPoint /\ [][NextPoint]_vars

\* The lists a bulk operation is called with: up to MaxBulk keys or pairs,
\* repeats included.
KeyLists == UNION {[1..n -> Keys] : n \in 0..MaxBulk}

PairLists == UNION {[1..n -> Keys \X Values] : n \in 0..MaxBulk}

\* Thread 1 calls one bulk operation, outside any scope or inside a scope it
\* then leaves in any of the three ways; every other thread calls bulk_get on
\* all the keys at any moment; the store may already hold entries.
BulkOps ==
    {[op |-> o, keys |-> keys] : o \in {"bulk_get", "bulk_delete"}, keys \in KeyLists}
       \cup {[op |-> "bulk_set", pairs |-> pairs] : pairs \in PairLists}

BulkPrograms ==
    {<<bulk>> : bulk \in BulkOps}
       \cup {<<[op |-> "begin"], bulk, [op |-> "end", outcome |-> o]>> :
                 bulk \in BulkOps, o \in Outcomes}

ObserverPrograms ==
    {<<[op |-> "bulk_get", keys |-> keys]>> :
        keys \in {ks \in [1..Cardinality(Keys) -> Keys] : Range(ks) = Keys}}

InitBulk ==
    \E table \in Tables, program \in BulkPrograms, observer \in ObserverPrograms :
       InitWith(table, [t \in Threads |-> IF t = 1 THEN program ELSE observer])

NextBulk ==
    \E t \in Threads :
       \/ At(t, "begin") /\ TransactionEnter(t)
       \/ At(t, "end") /\ TransactionExit(t, Stmt(t).outcome, FALSE)
       \/ todo[t] # <<>> /\ Stmt(t).op \notin {"begin", "end"} /\ EnsureEnter(t)
       \/ At(t, "bulk_get") /\ BulkGet(t, Stmt(t).keys)
       \/ At(t, "bulk_get") /\ AutoBulkGet(t, Stmt(t).keys)
       \/ At(t, "bulk_set") /\ BulkSet(t, Stmt(t).pairs)
       \/ At(t, "bulk_set") /\ AutoBulkSet(t, Stmt(t).pairs)
       \/ At(t, "bulk_delete") /\ BulkDelete(t, Stmt(t).keys)
       \/ At(t, "bulk_delete") /\ AutoBulkDelete(t, Stmt(t).keys)

SpecBulk == InitBulk /\ [][NextBulk]_vars

\* The keys the store of SpecQuery may hold, and the tables of up to
\* MaxStored of them.
QueryKeys ==
    {<<"%">>, <<"A">>, <<"_">>, <<"a">>, <<"a", "_">>, <<"a", "b">>, <<"b">>}

QueryTables ==
    {[k \in ks |-> Serialize(Len(k))] :
        ks \in {x \in SUBSET QueryKeys : Cardinality(x) <= MaxStored}}

\* The arguments query is called with.
Prefixes == {<<>>, <<"%">>, <<"_">>, <<"A">>, <<"a">>, <<"a", "b">>}

RangeBounds == {<<>>, <<"a">>, <<"a", "b">>, <<"b">>}

Limits == {None} \cup {Some(n) : n \in 0..MaxLimit}

Optional(S) == {None} \cup {Some(x) : x \in S}

\* keyprefix alone; start and end, each optional; keyprefix with start or end.
QuerySpecs ==
    {[keyprefix |-> Some(p), start |-> None, end |-> None,
      limit |-> l, reverse |-> r] :
         p \in Prefixes, l \in Limits, r \in BOOLEAN}
    \cup {[keyprefix |-> None, start |-> s, end |-> e,
           limit |-> l, reverse |-> r] :
         s \in Optional(RangeBounds), e \in Optional(RangeBounds),
         l \in Limits, r \in BOOLEAN}
    \cup {[keyprefix |-> Some(p), start |-> s, end |-> e,
           limit |-> None, reverse |-> FALSE] :
         p \in {<<>>, <<"a">>},
         s \in Optional(RangeBounds), e \in Optional(RangeBounds)}

\* Thread 1 calls query once, outside any scope or inside a scope of its own.
QueryPrograms ==
    {<<[op |-> "query", q |-> q]>> : q \in QuerySpecs}
       \cup {<<[op |-> "begin"], [op |-> "query", q |-> q], [op |-> "end"]>> :
                 q \in QuerySpecs}

InitQuery ==
    \E table \in QueryTables, program \in QueryPrograms :
       InitWith(table, [t \in Threads |-> IF t = 1 THEN program ELSE <<>>])

NextQuery ==
    \E t \in Threads :
       \/ At(t, "begin") /\ TransactionEnter(t)
       \/ At(t, "end") /\ TransactionExit(t, "ok", FALSE)
       \/ At(t, "query") /\ QueryValid(Stmt(t).q) /\ EnsureEnter(t)
       \/ At(t, "query") /\ QueryRejected(t, Stmt(t).q)
       \/ At(t, "query") /\ Query(t, Stmt(t).q)
       \/ At(t, "query") /\ AutoQuery(t, Stmt(t).q)

SpecQuery == InitQuery /\ [][NextQuery]_vars

\* The eight public operations, each called once by thread 1, outside any
\* scope or inside a scope it then leaves in any of the three ways: the point
\* and bulk operations on a store with plain keys, query (with arguments it
\* accepts) on a store with the keys of SpecQuery.
PublicOps ==
    {"get", "set", "has", "delete", "bulk_get", "bulk_set", "bulk_delete", "query"}

AmbientPrograms(ops) ==
    {<<call>> : call \in ops}
       \cup {<<[op |-> "begin"], call, [op |-> "end", outcome |-> o]>> :
                 call \in ops, o \in Outcomes}

AmbientQueries ==
    {[op |-> "query", q |-> q] :
        q \in {x \in QuerySpecs : QueryValid(x) /\ x.limit = None /\ ~x.reverse}}

InitAmbient ==
    \/ \E table \in Tables, program \in AmbientPrograms(PointOps \cup BulkOps) :
          InitWith(table, [t \in Threads |-> IF t = 1 THEN program ELSE <<>>])
    \/ \E table \in QueryTables, program \in AmbientPrograms(AmbientQueries) :
          InitWith(table, [t \in Threads |-> IF t = 1 THEN program ELSE <<>>])

NextAmbient ==
    \E t \in Threads :
       \/ At(t, "begin") /\ TransactionEnter(t)
       \/ At(t, "end") /\ TransactionExit(t, Stmt(t).outcome, FALSE)
       \/ todo[t] # <<>> /\ Stmt(t).op \in PublicOps /\ EnsureEnter(t)
       \/ At(t, "get") /\ Get(t, Stmt(t).key)
       \/ At(t, "get") /\ AutoGet(t, Stmt(t).key)
       \/ At(t, "has") /\ Has(t, Stmt(t).key)
       \/ At(t, "has") /\ AutoHas(t, Stmt(t).key)
       \/ At(t, "set") /\ Set(t, Stmt(t).key, Stmt(t).val)
       \/ At(t, "set") /\ AutoSet(t, Stmt(t).key, Stmt(t).val)
       \/ At(t, "delete") /\ Delete(t, Stmt(t).key)
       \/ At(t, "delete") /\ AutoDelete(t, Stmt(t).key)
       \/ At(t, "bulk_get") /\ BulkGet(t, Stmt(t).keys)
       \/ At(t, "bulk_get") /\ AutoBulkGet(t, Stmt(t).keys)
       \/ At(t, "bulk_set") /\ BulkSet(t, Stmt(t).pairs)
       \/ At(t, "bulk_set") /\ AutoBulkSet(t, Stmt(t).pairs)
       \/ At(t, "bulk_delete") /\ BulkDelete(t, Stmt(t).keys)
       \/ At(t, "bulk_delete") /\ AutoBulkDelete(t, Stmt(t).keys)
       \/ At(t, "query") /\ Query(t, Stmt(t).q)
       \/ At(t, "query") /\ AutoQuery(t, Stmt(t).q)

SpecAmbient == InitAmbient /\ [][NextAmbient]_vars

\* Threads 1 and 2 each run one root scope, or one root scope with a nested
\* scope in it, every scope left in any of the three ways; any further
\* thread runs one root scope that commits. Every body is finite.
ProgressPrograms ==
    {<<[op |-> "begin"], [op |-> "end", outcome |-> o]>> : o \in Outcomes}
       \cup {<<[op |-> "begin"], [op |-> "begin"], [op |-> "end", outcome |-> o1],
               [op |-> "end", outcome |-> o2]>> : o1 \in Outcomes, o2 \in Outcomes}

InitProgress ==
    \E p1 \in ProgressPrograms, p2 \in ProgressPrograms :
       InitWith(EmptyTable,
                [t \in Threads |-> IF t = 1 THEN p1
                                   ELSE IF t = 2 THEN p2
                                   ELSE <<[op |-> "begin"], [op |-> "end", outcome |-> "ok"]>>])

\* An exception a nested scope re-raised leaves the enclosing scope too.
ProgressStep(t) ==
    \/ At(t, "begin") /\ TransactionEnter(t)
    \/ At(t, "end") /\ pc[t] = "in" /\ TransactionExit(t, Stmt(t).outcome, FALSE)
    \/ At(t, "end") /\ pc[t] = "raising" /\ TransactionExit(t, "exc", FALSE)

NextProgress == \E t \in Threads : ProgressStep(t)

SpecProgress == InitProgress /\ [][NextProgress]_vars

\* The same threads under a fair scheduler: a thread that can take its next
\* step, because it holds the lock or the lock is free, takes it.
SpecProgressFair == SpecProgress /\ \A t \in Threads : WF_vars(ProgressStep(t))

\* The calls of SpecAmbient with every choice of types for their key
\* arguments: str or int, and NoneType for the arguments of query left out.
KeyTypes == {"str", "int"}

KeyCount(call) ==
    IF call.op \in {"bulk_get", "bulk_delete"} THEN Len(call.keys)
    ELSE IF call.op = "bulk_set" THEN Len(call.pairs)
    ELSE 1

TypedCalls ==
    {call @@ [types |-> types] :
        call \in PointOps \cup BulkOps, types \in UNION {[1..n -> KeyTypes] : n \in 0..MaxBulk}}

TypedQueries ==
    {call @@ [types |-> types] :
        call \in AmbientQueries, types \in [1..3 -> KeyTypes \cup {"NoneType"}]}

\* The types fit the call: one per key argument, NoneType where query is
\* given None.
WellTyped(call) ==
    IF call.op = "query"
       THEN /\ call.types[1] = "NoneType" <=> call.q.keyprefix = None
            /\ call.types[2] = "NoneType" <=> call.q.start = None
            /\ call.types[3] = "NoneType" <=> call.q.end = None
       ELSE Len(call.types) = KeyCount(call)

InitTypes ==
    \/ \E table \in Tables,
          program \in AmbientPrograms({c \in TypedCalls : WellTyped(c)}) :
          InitWith(table, [t \in Threads |-> IF t = 1 THEN program ELSE <<>>])
    \/ \E table \in QueryTables,
          program \in AmbientPrograms({c \in TypedQueries : WellTyped(c)}) :
          InitWith(table, [t \in Threads |-> IF t = 1 THEN program ELSE <<>>])

\* Thread t stands at a call of op whose key arguments pass the checks.
Typed(t, op) == At(t, op) /\ KeyTypesOk(Stmt(t))

NextTypes ==
    \E t \in Threads :
       \/ At(t, "begin") /\ TransactionEnter(t)
       \/ At(t, "end") /\ TransactionExit(t, Stmt(t).outcome, FALSE)
       \/ todo[t] # <<>> /\ Stmt(t).op \in PublicOps /\ KeyTypeRejected(t, Stmt(t))
       \/ todo[t] # <<>> /\ Stmt(t).op \in PublicOps /\ KeyTypesOk(Stmt(t))
             /\ EnsureEnter(t)
       \/ Typed(t, "get") /\ Get(t, Stmt(t).key)
       \/ Typed(t, "get") /\ AutoGet(t, Stmt(t).key)
       \/ Typed(t, "has") /\ Has(t, Stmt(t).key)
       \/ Typed(t, "has") /\ AutoHas(t, Stmt(t).key)
       \/ Typed(t, "set") /\ Set(t, Stmt(t).key, Stmt(t).val)
       \/ Typed(t, "set") /\ AutoSet(t, Stmt(t).key, Stmt(t).val)
       \/ Typed(t, "delete") /\ Delete(t, Stmt(t).key)
       \/ Typed(t, "delete") /\ AutoDelete(t, Stmt(t).key)
       \/ Typed(t, "bulk_get") /\ BulkGet(t, Stmt(t).keys)
       \/ Typed(t, "bulk_get") /\ AutoBulkGet(t, Stmt(t).keys)
       \/ Typed(t, "bulk_set") /\ BulkSet(t, Stmt(t).pairs)
       \/ Typed(t, "bulk_set") /\ AutoBulkSet(t, Stmt(t).pairs)
       \/ Typed(t, "bulk_delete") /\ BulkDelete(t, Stmt(t).keys)
       \/ Typed(t, "bulk_delete") /\ AutoBulkDelete(t, Stmt(t).keys)
       \/ Typed(t, "query") /\ Query(t, Stmt(t).q)
       \/ Typed(t, "query") /\ AutoQuery(t, Stmt(t).q)

SpecTypes == InitTypes /\ [][NextTypes]_vars

\* Thread 1 calls set or bulk_set once, with values the serializer takes or
\* refuses, outside any scope or inside a scope after an earlier write of
\* the scope; the scope ends well when the caller catches an error, or with
\* the error.
SerialValues == Values \cup Unpicklable

SerialCalls ==
    {[op |-> "set", key |-> k, val |-> v] : k \in Keys, v \in SerialValues}
       \cup {[op |-> "bulk_set", pairs |-> pairs] :
                 pairs \in UNION {[1..n -> Keys \X SerialValues] : n \in 1..MaxBulk}}

EarlierWrite == [op |-> "set", key |-> "a", val |-> 2]

SerialPrograms ==
    {<<call>> : call \in SerialCalls}
       \cup {<<[op |-> "begin"], EarlierWrite, call, [op |-> "end", outcome |-> o]>> :
                 call \in SerialCalls, o \in {"ok", "exc"}}

InitSerial ==
    \E table \in Tables, program \in SerialPrograms :
       InitWith(table, [t \in Threads |-> IF t = 1 THEN program ELSE <<>>])

NextSerial ==
    \E t \in Threads :
       \/ At(t, "begin") /\ TransactionEnter(t)
       \/ At(t, "end") /\ TransactionExit(t, Stmt(t).outcome, FALSE)
       \/ todo[t] # <<>> /\ Stmt(t).op \in {"set", "bulk_set"}
             /\ SerializedBeforeTxn(Stmt(t)) /\ EnsureEnter(t)
       \/ todo[t] # <<>> /\ SerializationFailed(t, Stmt(t))
       \/ At(t, "set") /\ Set(t, Stmt(t).key, Stmt(t).val)
       \/ At(t, "set") /\ AutoSet(t, Stmt(t).key, Stmt(t).val)
       \/ At(t, "bulk_set") /\ BulkSet(t, Stmt(t).pairs)
       \/ At(t, "bulk_set") /\ AutoBulkSet(t, Stmt(t).pairs)

SpecSerial == InitSerial /\ [][NextSerial]_vars

\* Threads that call the store freely and close it at any moment, from
\* outside or inside a scope, and go on calling it.
NextClose ==
    \E t \in Threads :
       \/ Room(MaxNest) /\ TransactionEnter(t)
       \/ \E o \in Outcomes, c \in BOOLEAN : TransactionExit(t, o, c)
       \/ EnsureEnter(t)
       \/ \E k \in TxnKeys : Get(t, k)
       \/ \E k \in TxnKeys : AutoGet(t, k)
       \/ \E k \in TxnKeys, v \in TxnValues : Set(t, k, v)
       \/ \E k \in TxnKeys, v \in TxnValues : AutoSet(t, k, v)
       \/ Close(t)
       \/ \E call \in Calls : EnterClosed(t, call)
       \/ \E c \in BOOLEAN : FailClosed(t, c)
       \/ \E call \in Calls, c \in BOOLEAN : OpClosed(t, call, c)
       \/ \E o \in Outcomes, c \in BOOLEAN : TransactionExitClosed(t, o, c)

SpecClose == Init /\ [][NextClose]_vars

\* The keys and tables of SpecScan, and the page sizes scan is called with:
\* every int is accepted, negative ones included.
ScanKeys == {<<"A">>, <<"a">>, <<"a", "b">>, <<"b">>}

ScanTables == {[k \in ks |-> Serialize(Len(k))] : ks \in SUBSET ScanKeys}

PageSizes == -2..MaxPage

\* Thread 1 iterates one scan to exhaustion, outside any scope or inside a
\* scope of its own.
ScanPrograms ==
    {<<[op |-> "scan", pagesize |-> n]>> : n \in PageSizes}
       \cup {<<[op |-> "begin"], [op |-> "scan", pagesize |-> n], [op |-> "end"]>> :
                 n \in PageSizes}

\* Thread 2 is idle or makes one write, of a value no table holds.
WriterPrograms ==
    {<<>>} \cup {<<[op |-> "set", key |-> k, val |-> 0]>> : k \in ScanKeys}
           \cup {<<[op |-> "delete", key |-> k]>> : k \in ScanKeys}

InitScan ==
    \E table \in ScanTables, program \in ScanPrograms, writer \in WriterPrograms :
       InitWith(table, [t \in Threads |-> IF t = 1 THEN program
                                          ELSE IF t = 2 THEN writer
                                          ELSE <<>>])

ScanStep(t) ==
    \/ At(t, "begin") /\ TransactionEnter(t)
    \/ At(t, "end") /\ TransactionExit(t, IF pc[t] = "raising" THEN "exc" ELSE "ok", FALSE)
    \/ At(t, "scan") /\ ScanCall(t, Stmt(t).pagesize)
    \/ At(t, "scan") /\ ScanPageEnter(t)
    \/ At(t, "scan") /\ ScanPageFetch(t)
    \/ At(t, "scan") /\ ScanYield(t)
    \/ At(t, "scan") /\ ScanStop(t)
    \/ At(t, "scan") /\ ScanRaise(t)
    \/ todo[t] # <<>> /\ Stmt(t).op \in {"set", "delete"} /\ EnsureEnter(t)
    \/ At(t, "set") /\ AutoSet(t, Stmt(t).key, Stmt(t).val)
    \/ At(t, "delete") /\ AutoDelete(t, Stmt(t).key)

NextScan == \E t \in Threads : ScanStep(t)

SpecScan == InitScan /\ [][NextScan]_vars

\* The same threads under a fair scheduler: a thread that can take a step
\* takes one.
SpecScanFair == SpecScan /\ \A t \in Threads : WF_vars(ScanStep(t))

\* One thread iterates a scan outside any transaction scope, with a page size
\* of one or more, while another makes one or two writes, each in a
\* transaction of its own: inserts and overwrites (with a value no row of the
\* table has) and deletes.
WriterOps ==
    {[op |-> "set", key |-> k, val |-> 0] : k \in ScanKeys}
       \cup {[op |-> "delete", key |-> k] : k \in ScanKeys}

WriterSequences ==
    {<<w>> : w \in WriterOps} \cup {<<w1, w2>> : w1 \in WriterOps, w2 \in WriterOps}

PagingSizes == 1..MaxPage

InitScanWriters ==
    \E table \in ScanTables, n \in PagingSizes, writer \in WriterSequences :
       InitWith(table, [t \in Threads |->
                          IF t = 1 THEN <<[op |-> "scan", pagesize |-> n]>>
                          ELSE IF t = 2 THEN writer
                          ELSE <<>>])

ScanWritersStep(t) ==
    \/ At(t, "scan") /\ ScanCall(t, Stmt(t).pagesize)
    \/ At(t, "scan") /\ ScanPageEnter(t)
    \/ At(t, "scan") /\ ScanPageFetch(t)
    \/ At(t, "scan") /\ ScanYield(t)
    \/ At(t, "scan") /\ ScanStop(t)
    \/ todo[t] # <<>> /\ Stmt(t).op \in {"set", "delete"} /\ EnsureEnter(t)
    \/ At(t, "set") /\ AutoSet(t, Stmt(t).key, Stmt(t).val)
    \/ At(t, "delete") /\ AutoDelete(t, Stmt(t).key)

NextScanWriters == \E t \in Threads : ScanWritersStep(t)

SpecScanWriters == InitScanWriters /\ [][NextScanWriters]_vars

\* One thread iterates a scan outside any transaction scope while another
\* makes a single bulk call on two keys, which is one transaction: the table
\* is the one the threads started with until that transaction commits, and
\* the committed one from then on.
BatchKeys == {ks \in ScanKeys \X ScanKeys : KeyLess(ks[1], ks[2])}

BatchCalls ==
    {[op |-> "bulk_set", pairs |-> <<(<<ks[1], 0>>), (<<ks[2], 0>>)>>] : ks \in BatchKeys}
       \cup {[op |-> "bulk_delete", keys |-> ks] : ks \in BatchKeys}

InitScanBatch ==
    \E table \in ScanTables, n \in PagingSizes, call \in BatchCalls :
       InitWith(table, [t \in Threads |->
                          IF t = 1 THEN <<[op |-> "scan", pagesize |-> n]>>
                          ELSE IF t = 2 THEN <<call>>
                          ELSE <<>>])

ScanBatchStep(t) ==
    \/ At(t, "scan") /\ ScanCall(t, Stmt(t).pagesize)
    \/ At(t, "scan") /\ ScanPageEnter(t)
    \/ At(t, "scan") /\ ScanPageFetch(t)
    \/ At(t, "scan") /\ ScanYield(t)
    \/ At(t, "scan") /\ ScanStop(t)
    \/ todo[t] # <<>> /\ Stmt(t).op \in {"bulk_set", "bulk_delete"} /\ EnsureEnter(t)
    \/ At(t, "bulk_set") /\ AutoBulkSet(t, Stmt(t).pairs)
    \/ At(t, "bulk_delete") /\ AutoBulkDelete(t, Stmt(t).keys)

NextScanBatch == \E t \in Threads : ScanBatchStep(t)

SpecScanBatch == InitScanBatch /\ [][NextScanBatch]_vars

\* ------------------------------------------- handles of several processes
\* Each process opens the same file with a handle of its own: its own lock,
\* flag and connection. What the handles share is the file, and sqlite's
\* EXCLUSIVE lock on it, which BEGIN EXCLUSIVE TRANSACTION takes and COMMIT
\* or ROLLBACK gives back. committed is the table on file.

\* The frame of a step a process takes: the threads of the handle modelled
\* above take no part.
ProcessFrame ==
    UNCHANGED <<txn_rlock, is_already_in_txn, txn_nesting_level, savepoints, pc,
                frames, start, todo, dirty, seen, stale, ideal,
                sqlite_connection_is_already_closed, scans>>

\* A BEGIN EXCLUSIVE that never finds the file busy.
SqliteNeverBusy(p) == TRUE

\* BEGIN EXCLUSIVE TRANSACTION gets the lock when no other connection holds
\* it; until then sqlite retries, for as long as the handle's timeout allows.
SqliteLockFree(p) == exclusive_lock = NoProcess

\* The value the writes of process p store.
ProcessValue(p) == p

\* transaction() at level 0, up to the BEGIN: the flag is set and BEGIN
\* EXCLUSIVE TRANSACTION is issued.
ProcessBegin(p) ==
    /\ handles[p].pc = "idle"
    /\ handles' = [handles EXCEPT ![p] =
          [@ EXCEPT !.pc = "begin", !.is_already_in_txn = TRUE,
                    !.before = committed]]
    /\ last' = [op |-> "begin", p |-> p, raised |-> FALSE, waits |-> ~SqliteLockFree(p)]
    /\ UNCHANGED <<committed, content, exclusive_lock>>
    /\ ProcessFrame

\* The BEGIN returns: the connection holds the lock and has a transaction
\* open on the table on file.
ProcessBeginProceeds(p) ==
    /\ handles[p].pc = "begin"
    /\ SqliteLockFree(p)
    /\ exclusive_lock' = p
    /\ handles' = [handles EXCEPT ![p] = [@ EXCEPT !.pc = "in", !.view = committed]]
    /\ last' = [op |-> "begun", p |-> p, raised |-> FALSE,
                waited |-> committed # handles[p].before]
    /\ UNCHANGED <<committed, content>>
    /\ ProcessFrame

\* The timeout passes with the lock still held by another connection: the
\* BEGIN raises OperationalError (database is locked); the except arm runs
\* ROLLBACK with no transaction open, which raises OperationalError in its
\* turn; finally clears the flag; the body of the with block never ran.
ProcessBeginTimesOut(p) ==
    /\ handles[p].pc = "begin"
    /\ ~SqliteLockFree(p)
    /\ handles' = [handles EXCEPT ![p] =
          [@ EXCEPT !.pc = "idle", !.is_already_in_txn = FALSE]]
    /\ last' = [op |-> "begun", p |-> p, raised |-> TRUE,
                error |-> "OperationalError", before |-> handles[p].before]
    /\ UNCHANGED <<committed, content, exclusive_lock>>
    /\ ProcessFrame

\* set(key, value) inside the open transaction: the row is written to the
\* connection's view.
ProcessSet(p, key) ==
    /\ handles[p].pc = "in"
    /\ handles' = [handles EXCEPT ![p] =
          [@ EXCEPT !.view = SetImpl(@, key, Serialize(ProcessValue(p)))]]
    /\ last' = [op |-> "set", p |-> p, key |-> key, raised |-> FALSE]
    /\ UNCHANGED <<committed, content, exclusive_lock>>
    /\ ProcessFrame

\* The with block ends: COMMIT when nothing was raised, ROLLBACK when
\* something was; either gives the lock back, and finally clears the flag.
ProcessEnd(p, outcome) ==
    /\ handles[p].pc = "in"
    /\ committed' = IF outcome = "ok" THEN handles[p].view ELSE committed
    /\ content' = committed'
    /\ exclusive_lock' = NoProcess
    /\ handles' = [handles EXCEPT ![p] =
          [@ EXCEPT !.pc = "idle", !.is_already_in_txn = FALSE]]
    /\ last' = [op |-> "end", p |-> p, outcome |-> outcome, raised |-> outcome = "exc"]
    /\ ProcessFrame

ProcessStep(p) ==
    \/ ProcessBegin(p)
    \/ ProcessBeginProceeds(p)
    \/ ProcessBeginTimesOut(p)
    \/ \E k \in Keys : ProcessSet(p, k)
    \/ ProcessEnd(p, "ok")
    \/ ProcessEnd(p, "exc")

NextProcesses == \E p \in Processes : ProcessStep(p)

InitProcesses == \E table \in Tables : InitWith(table, [t \in Threads |-> <<>>])

SpecProcesses == InitProcesses /\ [][NextProcesses]_vars

\* sqlite's busy handler gets the lock or gives up when the timeout has
\* passed: a BEGIN that has been issued returns or raises. Nothing makes a
\* process leave its with block.
SpecProcessesFair ==
    SpecProcesses /\ \A p \in Processes :
       WF_vars(ProcessBeginProceeds(p) \/ ProcessBeginTimesOut(p))

\* ============================================================== claims
Reads == {"get", "has"}

Open(t) == frames[t] # <<>>

\* What a read of key by operation op gives on table db.
Observe(op, db, key) == IF op = "get" THEN GetResult(db, key) ELSE HasImpl(db, key)

RootExit(outcome) ==
    last.op = "exit" /\ last.depth = 0 /\ last.outcome = outcome

LockFree == txn_rlock = [owner |-> NoThread, count |-> 0]

\* C1: at most one thread has a root transaction open (an explicit scope or
\* the implicit transaction of one operation); the thread that has one holds
\* the lock; and a read or write is never made against the store while
\* another thread's root transaction is open.
MutualExclusion ==
    /\ Cardinality({t \in Threads : Open(t)}) <= 1
    /\ \A t \in Threads : Open(t) => txn_rlock.owner = t /\ is_already_in_txn
    /\ last.op \in Reads \cup {"set", "delete"} =>
          \A u \in Threads \ {last.t} : ~Open(u)

\* A thread reads inside its root transaction after another thread committed
\* a write, while that other thread stands outside any transaction.
MutualExclusionWitness ==
    \E t, u \in Threads :
       /\ t # u
       /\ Open(t) /\ ~Open(u)
       /\ last.op = "get" /\ last.t = t /\ ~last.own /\ last.res.found
       /\ start # committed

\* C3: a read never returns what an uncommitted transaction of another thread
\* wrote: a key the reading transaction has not written itself reads as
\* committed, and a root transaction begins on the committed table.
NoDirtyRead ==
    /\ (last.op \in Reads /\ ~last.own) =>
          last.res = Observe(last.op, committed, last.key)
    /\ (last.op \in {"begin", "ensure"} /\ Len(frames[last.t]) = 1) =>
          content = committed

\* A thread's explicit transaction reads a committed value of a key it has
\* not written.
NoDirtyReadWitness ==
    /\ last.op = "get" /\ ~last.own /\ ~last.auto
    /\ last.res.found
    /\ Open(last.t)

\* C4 as stated: two reads of a key in one root transaction with no write of
\* the transaction to that key in between give the same result.
RepeatableReadAsStated ==
    (last.op \in Reads /\ last.rep) => Agree(last.res, last.prev)

\* C4 as amended: ... with no write of the transaction to that key and no
\* rollback of one of its nested scopes in between give the same result.
RepeatableRead ==
    (last.op \in Reads /\ last.rep /\ ~last.crossed) => Agree(last.res, last.prev)

\* A transaction reads a committed key a second time, with no write or
\* nested rollback of its own in between.
RepeatableReadWitness ==
    /\ last.op = "get" /\ last.rep /\ ~last.crossed
    /\ last.res.found /\ ~last.own

\* C6: AbortionError raised in a root scope: the table is what it was when
\* the scope began, nothing is raised to the caller, the lock is free.
AbortRootScope ==
    RootExit("abort") =>
       /\ content = last.entry
       /\ committed = last.entry
       /\ ~last.raised
       /\ LockFree /\ ~is_already_in_txn /\ pc[last.t] = "idle"

\* A root scope that wrote is left by AbortionError.
AbortRootScopeWitness ==
    RootExit("abort") /\ last.before # last.entry

\* C7: any other exception raised in a root scope: the table is what it was
\* when the scope began, the exception reaches the caller, the lock is free
\* and the flag clear, so that a later operation can begin.
FailRootScope ==
    RootExit("exc") =>
       /\ content = last.entry
       /\ committed = last.entry
       /\ last.raised
       /\ LockFree /\ ~is_already_in_txn /\ txn_nesting_level = 0
       /\ pc[last.t] = "idle"

\* A root scope that wrote is left by an exception.
FailRootScopeWitness ==
    RootExit("exc") /\ last.before # last.entry

\* C8: a root scope left without an exception: the table the scope built is
\* the committed table every later transaction begins on (with every inner
\* scope committed, it holds exactly the writes made), and the lock is free.
CommitRootScope ==
    RootExit("ok") =>
       /\ committed = last.before
       /\ content = committed
       /\ savepoints = <<>>
       /\ last.inner \in {"none", "ok"} => committed = last.ideal
       /\ ~last.raised
       /\ LockFree /\ ~is_already_in_txn

\* A root scope whose inner scopes all committed commits a changed table.
CommitRootScopeWitness ==
    RootExit("ok") /\ last.inner = "ok" /\ last.before # last.entry

\* C9: an inner scope raised AbortionError and the enclosing scopes commit:
\* the committed table holds the enclosing and committed sibling scopes'
\* writes and none of the aborted scope's, and no error is observed.
NestedRollbackKeepsOuter ==
    (RootExit("ok") /\ last.inner = "abort") =>
       /\ committed = last.ideal
       /\ ~last.raised

\* C10: a scope at depth > 0 left by AbortionError or another exception: the
\* table is what it was when that scope was entered.
NestedAbortToCheckpoint ==
    (last.op = "exit" /\ last.depth > 0 /\ last.outcome \in {"abort", "exc"}) =>
       content = last.entry

\* C2: every thread has run one root transaction that reads the key and
\* writes the value read plus one; when all have committed the key holds
\* its initial value plus the number of threads.
NoLostUpdate ==
    AllDone => \E key \in Keys :
                  /\ last.wrote = {key}
                  /\ GetResult(committed, key) =
                        [found |-> TRUE,
                         val |-> GetResult(start, key).val + NumThreads]

\* All the incrementing threads have committed.
NoLostUpdateWitness ==
    AllDone /\ RootExit("ok") /\ \A t \in Threads : ~Open(t)

\* C5: with a and b both present at the start, one thread has run
\* {if has(b): delete(a)} and another {if has(a): delete(b)}; when both have
\* finished, a or b is still present.
NoWriteSkew ==
    (AllDone /\ {"a", "b"} \subseteq DOMAIN start) =>
       (HasImpl(committed, "a").found \/ HasImpl(committed, "b").found)

\* Both threads have finished, a and b were present, and one was deleted.
NoWriteSkewWitness ==
    /\ AllDone /\ {"a", "b"} \subseteq DOMAIN start
    /\ RootExit("ok")
    /\ committed # start

\* C11: an exception other than AbortionError that leaves a nested scope
\* uncaught leaves every enclosing scope in turn; when it has left the root
\* scope it has reached the caller, the table is what it was when the root
\* scope began (no write of the transaction is in the store), no savepoint
\* is left, and the lock is free.
FailurePropagates ==
    /\ \A t \in Threads :
          pc[t] = "raising" =>
             /\ last.op = "exit" /\ last.t = t /\ last.outcome = "exc"
             /\ last.raised /\ Open(t)
    /\ (RootExit("exc") /\ last.propagated) =>
          /\ content = last.entry
          /\ committed = last.entry
          /\ savepoints = <<>>
          /\ last.raised
          /\ LockFree /\ ~is_already_in_txn /\ txn_nesting_level = 0
          /\ pc[last.t] = "idle"

\* An exception raised in a nested scope has left the root scope of a
\* transaction that had written.
FailurePropagatesWitness ==
    /\ RootExit("exc") /\ last.propagated
    /\ last.before # last.entry

\* The rows of every key but one are the same in two tables.
SameElsewhere(db1, db2, key) ==
    \A x \in Keys \ {key} : GetImpl(db1, x) = GetImpl(db2, x)

\* C12: set(k, v) leaves a table on which get(k) gives v and has(k) is true;
\* delete(k) returns whether k was present and leaves a table on which has(k)
\* is false and get(k) finds nothing; neither changes another key; a get or
\* has returns what the table holds and changes nothing; entering a scope and
\* committing one keep the table, and an operation outside any scope commits
\* its table, so that the same holds for reads in later transactions.
PointConsistency ==
    [][/\ last'.op = "set" =>
            /\ GetResult(content', last'.key) = [found |-> TRUE, val |-> last'.val]
            /\ HasImpl(content', last'.key).found
            /\ SameElsewhere(content', content, last'.key)
       /\ last'.op = "delete" =>
            /\ last'.res = HasImpl(content, last'.key).found
            /\ ~HasImpl(content', last'.key).found
            /\ ~GetResult(content', last'.key).found
            /\ SameElsewhere(content', content, last'.key)
       /\ last'.op \in Reads =>
            /\ last'.res = Observe(last'.op, content, last'.key)
            /\ content' = content
       /\ (last'.op \in {"set", "delete"} /\ last'.auto) => committed' = content'
       /\ last'.op \in {"begin", "ensure"} => content' = content
       /\ (last'.op = "exit" /\ last'.outcome = "ok") => content' = content
      ]_vars

\* Inside a scope a key is set over another value while the other key is
\* present, and read back.
PointConsistencyWitness ==
    /\ last.op = "get" /\ last.own /\ ~last.auto
    /\ last.res.found
    /\ last.key \in DOMAIN committed /\ GetResult(committed, last.key) # last.res
    /\ Keys \subseteq DOMAIN content

\* C13: bulk_get(keys) returns a list as long as keys whose i-th element is
\* what get(keys[i]) finds on the table (the value, or the not-found marker
\* in place of the LookupError); it raises nothing and changes neither the
\* table nor what is committed.
BulkGetAligned ==
    [][last'.op = "bulk_get" =>
          /\ Len(last'.res) = Len(last'.keys)
          /\ \A i \in 1..Len(last'.keys) :
                last'.res[i] = GetResult(content, last'.keys[i])
          /\ ~last'.raised
          /\ content' = content
          /\ committed' = committed
      ]_vars

\* A bulk_get of thread 1 whose list has a key that is present and one that
\* is absent.
BulkGetAlignedWitness ==
    /\ last.op = "bulk_get" /\ last.t = 1
    /\ \E i, j \in DOMAIN last.res : last.res[i].found /\ ~last.res[j].found

\* C14: bulk_delete(keys) returns a list as long as keys whose i-th element
\* tells whether keys[i] was present before the call; afterwards no listed
\* key is present and every other key has the row it had.
BulkDeleteAligned ==
    [][last'.op = "bulk_delete" =>
          /\ Len(last'.res) = Len(last'.keys)
          /\ \A i \in 1..Len(last'.keys) :
                last'.res[i] = HasImpl(content, last'.keys[i]).found
          /\ \A k \in Range(last'.keys) : ~HasImpl(content', k).found
          /\ \A k \in Keys \ Range(last'.keys) :
                GetImpl(content', k) = GetImpl(content, k)
      ]_vars

\* A bulk_delete whose list has a key that was present and one that was not.
BulkDeleteAlignedWitness ==
    /\ last.op = "bulk_delete"
    /\ TRUE \in Range(last.res) /\ FALSE \in Range(last.res)

\* The value of the last pair of the list that carries key.
LastValue(pairs, key) ==
    LET i == CHOOSE n \in DOMAIN pairs :
                /\ pairs[n][1] = key
                /\ \A m \in DOMAIN pairs : m > n => pairs[m][1] # key
    IN  pairs[i][2]

\* C15: a bulk_set that raises applies no pair; one that succeeds leaves
\* every listed key with the value of the last pair carrying it and every
\* other key as it was, and commits that table when called outside any scope;
\* a scope left by an exception leaves nothing of it. A bulk_get of keys its
\* transaction has not written returns what is committed, and what is
\* committed only ever changes to the table a whole operation or a committed
\* root scope left: no thread sees only some of the pairs applied.
BulkSetAtomic ==
    [][/\ last'.op = "bulk_set" =>
            IF last'.raised
               THEN content' = content /\ committed' = committed
               ELSE /\ \A k \in Keys :
                         IF k \in {last'.pairs[i][1] : i \in DOMAIN last'.pairs}
                            THEN GetResult(content', k) =
                                    [found |-> TRUE,
                                     val |-> LastValue(last'.pairs, k)]
                            ELSE GetImpl(content', k) = GetImpl(content, k)
                    /\ last'.auto => committed' = content'
       /\ (last'.op = "bulk_get" /\ ~last'.own) =>
             last'.res = BulkGetResult(committed, last'.keys)
       /\ committed' # committed =>
             /\ committed' = content'
             /\ \/ last'.op = "exit" /\ last'.depth = 0 /\ last'.outcome = "ok"
                \/ last'.op \in {"bulk_set", "bulk_delete"} /\ last'.auto
       /\ (last'.op = "exit" /\ last'.depth = 0 /\ last'.outcome # "ok") =>
             content' = last'.entry /\ committed' = last'.entry
      ]_vars

\* A bulk_set with two pairs that carry the same key and different values.
BulkSetAtomicWitness ==
    /\ last.op = "bulk_set" /\ ~last.raised
    /\ \E i, j \in DOMAIN last.pairs :
          /\ i < j
          /\ last.pairs[i][1] = last.pairs[j][1]
          /\ last.pairs[i][2] # last.pairs[j][2]

\* key starts with prefix.
StartsWith(key, prefix) ==
    Len(prefix) <= Len(key) /\ SubSeq(key, 1, Len(prefix)) = prefix

RowKeys(rows) == {rows[i][1] : i \in DOMAIN rows}

\* The rows come in strictly ascending (descending when reverse) key order.
InKeyOrder(rows, reverse) ==
    \A i, j \in DOMAIN rows :
       i < j => IF reverse THEN KeyLess(rows[j][1], rows[i][1])
                           ELSE KeyLess(rows[i][1], rows[j][1])

\* Every row carries the value stored under its key.
RowsStored(rows, db) ==
    \A i \in DOMAIN rows :
       GetResult(db, rows[i][1]) = [found |-> TRUE, val |-> rows[i][2]]

\* The latest call is a query in prefix mode, in range mode (start or end
\* given), or with none of the three.
PrefixQuery ==
    /\ last.op = "query"
    /\ last.q.keyprefix # None /\ last.q.start = None /\ last.q.end = None

RangeQuery ==
    /\ last.op = "query"
    /\ last.q.keyprefix = None /\ (last.q.start # None \/ last.q.end # None)

UnboundedQuery ==
    /\ last.op = "query"
    /\ last.q.keyprefix = None /\ last.q.start = None /\ last.q.end = None

\* The stored keys within the inclusive bounds of the latest query.
InRange ==
    {k \in DOMAIN content :
        /\ last.q.start # None => KeyLessEq(last.q.start[1], k)
        /\ last.q.end # None => KeyLessEq(k, last.q.end[1])}

\* C16: query(prefix=p) returns exactly the entries whose key starts with p,
\* in ascending key order.
PrefixQueryExact ==
    (PrefixQuery /\ last.q.limit = None) =>
       /\ ~last.raised
       /\ RowKeys(last.rows) =
             {k \in DOMAIN content : StartsWith(k, last.q.keyprefix[1])}
       /\ InKeyOrder(last.rows, FALSE)
       /\ RowsStored(last.rows, content)

\* C17: a range query without limit returns exactly the entries with
\* start <= key <= end (either bound may be absent), ascending, or descending
\* when reverse is true.
RangeInclusive ==
    (RangeQuery /\ last.q.limit = None) =>
       /\ ~last.raised
       /\ RowKeys(last.rows) = InRange
       /\ InKeyOrder(last.rows, last.q.reverse)
       /\ RowsStored(last.rows, content)

\* A descending query between two different stored bounds: the first row is
\* the end bound's, the last the start bound's.
RangeInclusiveWitness ==
    /\ RangeQuery /\ last.q.limit = None /\ last.q.reverse
    /\ last.q.start # None /\ last.q.end # None
    /\ Len(last.rows) >= 2
    /\ last.rows[1][1] = last.q.end[1]
    /\ last.rows[Len(last.rows)][1] = last.q.start[1]

\* C18: a range query with limit n returns the first n entries of the
\* matching sequence in the order asked (all of them when fewer match): the
\* rows are in range and in order, and every matching key left out comes
\* after every row in that order.
LimitAfterOrder ==
    (RangeQuery /\ last.q.limit # None) =>
       /\ ~last.raised
       /\ Len(last.rows) = IF last.q.limit[1] < Cardinality(InRange)
                               THEN last.q.limit[1] ELSE Cardinality(InRange)
       /\ RowKeys(last.rows) \subseteq InRange
       /\ InKeyOrder(last.rows, last.q.reverse)
       /\ RowsStored(last.rows, content)
       /\ \A k \in InRange \ RowKeys(last.rows) : \A i \in DOMAIN last.rows :
             IF last.q.reverse THEN KeyLess(k, last.rows[i][1])
                               ELSE KeyLess(last.rows[i][1], k)

\* A descending range query whose limit leaves matching entries out.
LimitAfterOrderWitness ==
    /\ RangeQuery /\ last.q.limit # None /\ last.q.reverse
    /\ Len(last.rows) >= 1
    /\ Len(last.rows) < Cardinality(InRange)

\* C19: a query given neither prefix nor start nor end returns all the
\* stored entries in key order (ascending, or descending when reverse; the
\* first limit of them when a limit is given).
UnboundedQueryAll ==
    UnboundedQuery =>
       /\ ~last.raised
       /\ last.q.limit = None => RowKeys(last.rows) = DOMAIN content
       /\ InKeyOrder(last.rows, last.q.reverse)
       /\ RowsStored(last.rows, content)

\* C20: a query given keyprefix together with start or end raises RuntimeError
\* and leaves the table, what is committed, the flag, the nesting level, the
\* lock, the savepoints and the open scopes as they were.
QueryValidation ==
    [][(/\ last'.op = "query"
        /\ last'.q.keyprefix # None
        /\ (last'.q.start # None \/ last'.q.end # None)) =>
          /\ last'.raised /\ last'.error = "RuntimeError"
          /\ UNCHANGED <<content, committed, is_already_in_txn,
                         txn_nesting_level, txn_rlock, savepoints, frames, pc>>
      ]_vars

\* Inside an open scope on a store that holds entries, a query with keyprefix
\* and start has been refused.
QueryValidationWitness ==
    /\ last.op = "query" /\ last.raised /\ last.error = "RuntimeError"
    /\ last.q.keyprefix # None /\ last.q.start # None
    /\ Open(last.t) /\ is_already_in_txn
    /\ DOMAIN content # {}

\* The first n elements of a sequence (all of it when it has fewer).
FirstN(seq, n) == IF n >= Len(seq) THEN seq ELSE SubSeq(seq, 1, n)

NestedCommitProvisional ==
    /\ (last.op = "exit" /\ last.depth > 0 /\ last.outcome = "ok") =>
          /\ content = last.before
          /\ committed = frames[last.t][1].entry
    /\ (last.op = "exit" /\ last.outcome \in {"abort", "exc"} /\ last.merged) =>
          content = last.entry


\* C21: with no concurrent writer, a scan with a page size of at least 1
\* yields every stored entry exactly once, with its value, in strictly
\* ascending key order, whatever the page size.
ScanComplete ==
    (last.op = "scan" /\ last.pagesize >= 1 /\ content = start) =>
       /\ ~last.raised
       /\ Len(last.res) = Cardinality(DOMAIN start)
       /\ RowKeys(last.res) = DOMAIN start
       /\ \A i \in 1..Len(last.res) :
             last.res[i][2] = Deserialize(start[last.res[i][1]])
       /\ \A i \in 1..(Len(last.res) - 1) :
             KeyLess(last.res[i][1], last.res[i + 1][1])

\* A scan with page size 2 over four entries, a multiple of the page size,
\* has ended with all four.
ScanCompleteWitness ==
    /\ last.op = "scan" /\ last.pagesize = 2 /\ content = start
    /\ Cardinality(DOMAIN start) = 4
    /\ Len(last.res) = 4

\* C22: with no concurrent writer, iterating a scan to exhaustion ends,
\* whatever int the page size is.
ScanTerminates ==
    (\A t \in Threads \ {1} : todo[t] = <<>>) => <>AllDone

\* C23: a scan iterated outside any scope fetches each page in a root
\* transaction of its own, and while a pair is due or the consumer has
\* control the scanning thread holds neither the lock nor a transaction.
ScanReleasesBetweenPages ==
    \A t \in Threads :
       /\ (scans[t].phase = "page" /\ scans[t].depth = 0) =>
             /\ Len(frames[t]) = 1
             /\ txn_rlock.owner = t
             /\ is_already_in_txn /\ txn_nesting_level = 0
       /\ (scans[t].phase \in {"loop", "yield", "raise"} /\ scans[t].depth = 0) =>
             /\ ~Open(t)
             /\ txn_rlock.owner # t
             /\ is_already_in_txn => \E u \in Threads \ {t} : Open(u)
             /\ ~is_already_in_txn => content = committed

\* Another thread has committed a write between two pages of a scan.
ScanReleasesBetweenPagesWitness ==
    \E t \in Threads :
       /\ scans[t].phase = "yield" /\ ~scans[t].final
       /\ scans[t].yielded # <<>>
       /\ scans[t].depth = 0
       /\ last.op \in {"set", "delete"} /\ last.t # t
       /\ committed # start
       /\ LockFree

\* The transaction manager is idle: flag clear, level 0, lock free.
Idle == ~is_already_in_txn /\ txn_nesting_level = 0 /\ LockFree

\* C27: the first close releases the connection, with whatever transaction
\* was open on it; a close is made only while no other thread has a root
\* transaction open; and a later close, from any thread, changes nothing.
CloseIdempotent ==
    /\ [](last.op = "close" =>
            /\ sqlite_connection_is_already_closed
            /\ content = committed /\ savepoints = <<>>
            /\ \A u \in Threads \ {last.t} : ~Open(u))
    /\ [][(sqlite_connection_is_already_closed /\ last'.op = "close") =>
             (/\ ~last'.first
              /\ UNCHANGED <<txn_rlock, is_already_in_txn, txn_nesting_level,
                             committed, content, savepoints, pc, frames,
                             sqlite_connection_is_already_closed,
                   exclusive_lock, handles>>)]_vars

\* A closed store is closed again, after a write was committed to it.
CloseIdempotentWitness ==
    /\ last.op = "close" /\ ~last.first
    /\ committed # start

\* C28 as stated: whatever fails on the closed store leaves the transaction
\* manager idle.
UseAfterCloseIdleAlways ==
    last.op = "closed" => last.raised /\ Idle

\* C28: on a closed store nothing is carried out: every call fails with an
\* error; a call made outside any scope of the caller, and the exit of the
\* last scope left open, leave the transaction manager idle.
UseAfterCloseIdle ==
    /\ sqlite_connection_is_already_closed =>
          last.op \in {"close", "enter_closed", "closed", "exit_closed"}
    /\ last.op \in {"closed", "exit_closed"} =>
          last.raised /\ last.error = "ProgrammingError"
    /\ (last.op \in {"closed", "exit_closed"} /\ last.depth = 0) => Idle

\* An operation called outside any scope has failed on the closed store.
UseAfterCloseIdleWitness ==
    /\ last.op = "closed" /\ last.call = "get" /\ last.depth = 0
    /\ \A t \in Threads : pc[t] = "idle"

\* The call reported raised: get of a missing key, a bulk_set or a query
\* whose statement failed.
CallRaised(call) ==
    IF call.op = "get" THEN ~call.res.found
    ELSE IF "raised" \in DOMAIN call THEN call.raised
    ELSE FALSE

\* C24: a public operation called while no transaction is active opens one
\* root transaction, runs in it, and ends it, committed when the operation
\* succeeded and rolled back when it raised, leaving no scope open; called
\* inside a scope of the caller it opens, commits and rolls back nothing and
\* leaves the open scopes as they were.
AmbientTransaction ==
    [][\A t \in Threads :
          (/\ todo[t] # <<>>
           /\ Stmt(t).op \in PublicOps
           /\ pc'[t] # pc[t] \/ todo'[t] # todo[t]) =>
             CASE pc[t] = "idle" ->
                    /\ ~is_already_in_txn /\ frames[t] = <<>>
                    /\ pc'[t] = "auto" /\ Len(frames'[t]) = 1
                    /\ is_already_in_txn' /\ txn_nesting_level' = 0
                    /\ savepoints' = <<>> /\ txn_rlock'.owner = t
                    /\ content' = committed /\ committed' = committed
               [] pc[t] = "auto" ->
                    /\ Len(frames[t]) = 1 /\ txn_nesting_level = 0
                    /\ pc'[t] = "idle" /\ frames'[t] = <<>>
                    /\ ~is_already_in_txn' /\ txn_nesting_level' = 0
                    /\ txn_rlock' = [owner |-> NoThread, count |-> 0]
                    /\ savepoints' = <<>>
                    /\ committed' = content'
                    /\ CallRaised(last') => committed' = committed
                    /\ ~CallRaised(last') /\ last'.op \in {"get", "has", "bulk_get", "query"}
                          => committed' = committed
                    /\ last'.op = "set" =>
                          committed'[last'.key] = Serialize(last'.val)
               [] OTHER ->
                    /\ pc[t] = "in" /\ is_already_in_txn
                    /\ ~last'.auto
                    /\ UNCHANGED <<frames, is_already_in_txn, txn_nesting_level,
                                   savepoints, committed, txn_rlock, pc>>]_vars

\* A bulk_set called outside any scope has raised and its transaction was
\* rolled back; the thread is outside any transaction again.
AmbientTransactionWitness ==
    /\ last.op = "bulk_set" /\ last.auto /\ last.raised
    /\ pc[last.t] = "idle" /\ frames[last.t] = <<>>
    /\ committed = start

\* Thread t is about to begin a root transaction while another thread has
\* one open.
Waiting(t) ==
    /\ At(t, "begin") /\ ~Open(t)
    /\ \E u \in Threads \ {t} : Open(u)

\* C25: a root transaction begins only while no other thread has one open;
\* under fair scheduling a waiting thread enters, a thread about to begin a
\* nested scope enters it, and every thread leaves all its scopes and ends.
BlockingAndProgress ==
    /\ [][\A t \in Threads :
             (~Open(t) /\ Open(t)') => \A u \in Threads \ {t} : ~Open(u)]_vars
    /\ \A t \in Threads : Waiting(t) ~> Open(t)
    /\ \A t \in Threads :
          (At(t, "begin") /\ Open(t)) ~> (Len(frames[t]) = 2)
    /\ \A t \in Threads : <>(todo[t] = <<>> /\ ~Open(t))

\* A thread that stood at its begin while another thread's root transaction
\* was open has entered after that transaction ended.
BlockingAndProgressWitness ==
    \E t, u \in Threads :
       /\ t # u
       /\ todo[u] = <<>> /\ ~Open(u)
       /\ last.op = "begin" /\ last.t = t /\ last.depth = 0
       /\ Open(t)

\* The last call was ended by a check of its key arguments' types.
Rejected == "rejected" \in DOMAIN last

\* C26: a call given a key argument that is not a string fails with
\* TypeError, with no transaction begun, no lock taken and the store as it
\* was.
KeyTypeContract ==
    Rejected =>
       /\ last.error = "TypeError"
       /\ content = start /\ committed = start
       /\ last.depth = Len(frames[last.t])
       /\ last.depth = 0 => Idle

\* The nested scopes open: every scope a thread has open above its root one.
OpenNested == UNION {{<<t, i>> : i \in 2..Len(frames[t])} : t \in Threads}

\* C33: the nesting level is never negative and counts the nested scopes
\* open; a level above 0 implies the flag; the flag implies that the thread
\* whose root scope is open holds the lock; and once a root scope has been
\* left, in whichever way, by a with block or by the implicit transaction of
\* one operation, the flag is clear, the level 0 and the lock free.
ManagerInvariant ==
    /\ txn_nesting_level >= 0
    /\ txn_nesting_level = Cardinality(OpenNested)
    /\ txn_nesting_level > 0 => is_already_in_txn
    /\ is_already_in_txn =>
          \E t \in Threads :
             /\ Open(t)
             /\ txn_rlock.owner = t /\ txn_rlock.count >= Len(frames[t])
    /\ (last.op = "exit" /\ last.depth = 0) => Idle
    /\ ("auto" \in DOMAIN last /\ last.auto) => Idle

\* A root scope has been left by an exception that a nested scope re-raised
\* into it.
ManagerInvariantWitness ==
    /\ RootExit("exc") /\ last.propagated
    /\ last.inner = "exc"
    /\ Idle

\* C35: a set or bulk_set one of whose values fails to serialize begins no
\* transaction and writes nothing, whichever pair of the batch fails: outside
\* a scope the store is as it was and the manager idle; inside a scope the
\* scope stays open with its earlier write, which is committed when the
\* scope ends well and discarded when the error leaves it.
SerializationFailureUnchanged ==
    /\ \A t \in Threads :
          (todo[t] # <<>> /\ Stmt(t).op \in {"set", "bulk_set"}
              /\ SerializationRaises(Stmt(t))) => pc[t] \in {"idle", "in"}
    /\ "failed" \in DOMAIN last =>
          /\ last.error = "SerializationError"
          /\ committed = start
          /\ last.depth = 0 => content = start /\ Idle
          /\ last.depth > 0 =>
                /\ content = SetImpl(start, EarlierWrite.key, Serialize(EarlierWrite.val))
                /\ Len(frames[last.t]) = last.depth
                /\ is_already_in_txn /\ txn_rlock.owner = last.t
                /\ txn_rlock.count = last.depth
    /\ RootExit("ok") => committed = last.before /\ content = last.before
    /\ RootExit("exc") => committed = start /\ content = start

\* Inside a scope a bulk_set whose second value fails to serialize has left
\* the first pair unwritten and the scope's earlier write in place.
SerializationFailureUnchangedWitness ==
    /\ "failed" \in DOMAIN last /\ last.op = "bulk_set"
    /\ Len(last.values) = 2
    /\ ~SerializeRaises(last.values[1]) /\ SerializeRaises(last.values[2])
    /\ last.depth = 1
    /\ content # start
\* The keys of the pairs a scan has yielded, in the order of the yields.
YieldedKeys(pairs) == [i \in 1..Len(pairs) |-> pairs[i][1]]

StrictlyAscending(keys) ==
    \A i \in 1..Len(keys) - 1 : KeyLess(keys[i], keys[i + 1])

\* The keys the table had at every one of the page fetches.
AtEveryFetch(fetched) == {k \in UNION fetched : \A keys \in fetched : k \in keys}

\* C34: a scan with page size >= 1 among committed inserts, overwrites and
\* deletes of another thread yields keys in strictly ascending order at every
\* moment of the iteration (so no key twice), and when it is exhausted every
\* key the table had at every page fetch has been yielded exactly once.
ScanUnderWriters ==
    /\ \A t \in Threads :
          scans[t].phase # "none" => StrictlyAscending(YieldedKeys(scans[t].yielded))
    /\ (last.op = "scan" /\ ~last.raised) =>
          /\ StrictlyAscending(YieldedKeys(last.res))
          /\ \A k \in AtEveryFetch(last.fetched) :
                Cardinality({i \in 1..Len(last.res) : last.res[i][1] = k}) = 1

\* A scan of several pages is exhausted after the other thread has inserted
\* a key and deleted a key between its page fetches: it has yielded a key
\* that was not there at every fetch.
ScanUnderWritersWitness ==
    /\ last.op = "scan"
    /\ ~last.raised
    /\ Cardinality(last.fetched) = 3
    /\ \E k \in UNION last.fetched \ AtEveryFetch(last.fetched) :
          \E i \in 1..Len(last.res) : last.res[i] = <<k, 0>>
    /\ \E k \in DOMAIN start \ DOMAIN committed :
          k \in {last.res[i][1] : i \in 1..Len(last.res)}
    /\ AtEveryFetch(last.fetched) # {}

\* What a scan of a table that nobody writes to yields: every pair, in
\* ascending order of key.
Rows(db) == ScanDeserialized(OrderByKey(db, DOMAIN db, FALSE))

\* The pairs yielded show key as table db has it: with db's value, or not at
\* all when db has no such key.
ShowsAs(pairs, db, key) ==
    IF key \in DOMAIN db
       THEN \E i \in 1..Len(pairs) : pairs[i] = <<key, Deserialize(db[key])>>
       ELSE \A i \in 1..Len(pairs) : pairs[i][1] # key

\* The keys on which two tables differ.
Changed(db1, db2) ==
    {k \in DOMAIN db1 \cup DOMAIN db2 :
        ~(k \in DOMAIN db1 /\ k \in DOMAIN db2 /\ db1[k] = db2[k])}

\* The pairs yielded are the content of the store at no instant: the store
\* held the starting table until the writer's one transaction committed and
\* the committed table afterwards.
Torn(pairs) == pairs # Rows(start) /\ pairs # Rows(committed)

\* C31: a scan iterated outside any scope beside a writer is not one
\* snapshot. Every pair it yields was in the store at some instant, but the
\* sequence as a whole can be the store's content at none; and when it is,
\* the writer's transaction committed between two page fetches, an earlier
\* page showing a key as it was before and a later page showing a key as it
\* is after.
ScanNotSerializable ==
    (last.op = "scan" /\ ~last.raised /\ last.depth = 0) =>
       /\ \A i \in 1..Len(last.res) :
             \/ ShowsAs(<<last.res[i]>>, start, last.res[i][1])
                   /\ last.res[i][1] \in DOMAIN start
             \/ ShowsAs(<<last.res[i]>>, committed, last.res[i][1])
                   /\ last.res[i][1] \in DOMAIN committed
       /\ Torn(last.res) =>
             /\ committed # start
             /\ Cardinality(last.fetched) > 1 \/ DOMAIN committed = DOMAIN start
             /\ \E k1 \in Changed(start, committed), k2 \in Changed(start, committed) :
                   /\ KeyLess(k1, k2)
                   /\ ShowsAs(last.res, start, k1) /\ ~ShowsAs(last.res, committed, k1)
                   /\ ShowsAs(last.res, committed, k2) /\ ~ShowsAs(last.res, start, k2)

\* A scan outside any scope is exhausted, and what it has yielded is neither
\* the table it started on nor the table committed since.
ScanNotSerializableWitness ==
    /\ last.op = "scan"
    /\ ~last.raised
    /\ last.depth = 0
    /\ Torn(last.res)

\* The connection of process p has a root transaction open.
RootOpen(p) == handles[p].pc = "in"

\* Two handles on one file at any moment: at most one has a root
\* transaction open, and it holds the file's lock; a handle whose root begin
\* has raised has no transaction open, its flag is clear, and the table on
\* file has no row of its writing that was not there when it issued the
\* begin; a begin that has returned finds the other handle's transaction
\* ended.
CrossProcessExclusive ==
    /\ Cardinality({p \in Processes : RootOpen(p)}) <= 1
    /\ \A p \in Processes :
          /\ RootOpen(p) <=> exclusive_lock = p
          /\ RootOpen(p) => handles[p].is_already_in_txn
          /\ handles[p].pc = "idle" => ~handles[p].is_already_in_txn
    /\ (last.op = "begun" /\ last.raised) =>
          /\ last.error = "OperationalError"
          /\ ~RootOpen(last.p)
          /\ ~handles[last.p].is_already_in_txn
          /\ exclusive_lock \in Processes \ {last.p}
          /\ \A k \in DOMAIN committed :
                committed[k] = Serialize(ProcessValue(last.p)) =>
                   k \in DOMAIN last.before /\ last.before[k] = committed[k]
    /\ (last.op = "begun" /\ ~last.raised) =>
          /\ RootOpen(last.p)
          /\ \A q \in Processes \ {last.p} : ~RootOpen(q)
          /\ handles[last.p].view = committed

\* C32: of two handles that different processes opened on one file, at no
\* time do both have a root transaction open; a root begin issued while the
\* other handle's transaction is open does not wait for ever: it returns
\* once that transaction has ended, or it raises when the timeout passes
\* first, and then the failing handle has no transaction open and none of
\* its writes is on file.
CrossProcessExclusion ==
    /\ []CrossProcessExclusive
    /\ \A p \in Processes :
          (handles[p].pc = "begin") ~> (handles[p].pc \in {"in", "idle"})

\* One handle's root begin has timed out while the other handle, with a
\* write pending in its open transaction, holds the lock.
CrossProcessExclusionWitness ==
    /\ last.op = "begun"
    /\ last.raised
    /\ \E q \in Processes \ {last.p} :
          /\ RootOpen(q)
          /\ handles[q].view # committed
    /\ committed # start

====
